---- MODULE Spec2Model ----
(***************************************************************************)
(* The MCP protocol server of ai-sre (src/src/mcp_server_protocol.py):     *)
(* the JSON-RPC dispatcher MCPServer.process_message, the tool handlers    *)
(* behind tools/call, CommandExecutor.execute and the WebSocket message    *)
(* loop of MCPWebSocketHandler.websocket_handler.                          *)
(*                                                                         *)
(* Python values are abstracted as follows.  A dict key that is missing is *)
(* Absent; the value None is PyNone; a value of a type other than str      *)
(* where the code expects a string (a JSON number, list or object) is      *)
(* NonStr.  A Python call is modelled by an operator returning an outcome  *)
(* record: exc says whether the call raised, hang whether it never         *)
(* returned, val is the returned value, err the text of the exception,     *)
(* spawned the number of OS processes the call created and ran the set of  *)
(* method handlers that were entered.                                      *)
(***************************************************************************)
EXTENDS Integers, Sequences, FiniteSets, TLC

\* Bound: the number of frames the connection receives in one behaviour.
MaxFrames == 2

\* CommandExecutor.timeout, the default of COMMAND_TIMEOUT.
DefaultTimeout == 60

Absent == "<absent>"
PyNone == "<None>"
NonStr == "<nonstr>"

\* Python None where a record is expected (a result, an error, a response).
NoValue == [t |-> "none"]

\* dict.get(key, default) on an abstracted field.
Get(field, default) == IF field = Absent THEN default ELSE field

\* Python truthiness of an abstracted field ("false" stands for False).
Truthy(v) == v \notin {Absent, PyNone, "", "false"}

Ret(v, n, h) == [exc |-> FALSE, hang |-> FALSE, val |-> v, err |-> "", spawned |-> n, ran |-> h]
Raise(e, n, h) == [exc |-> TRUE, hang |-> FALSE, val |-> NoValue, err |-> e, spawned |-> n, ran |-> h]
Hang(n, h) == [exc |-> FALSE, hang |-> TRUE, val |-> NoValue, err |-> "", spawned |-> n, ran |-> h]

(***************************************************************************)
(* MCPMessage                                                              *)
(***************************************************************************)

Err(code, message) == [code |-> code, message |-> message]

\* A plausible bug: the result key is written even when an error is given.
create_response_both(request_id, result, error) ==
    IF error # NoValue
    THEN [jsonrpc |-> "2.0", id |-> request_id, error |-> error, result |-> result]
    ELSE [jsonrpc |-> "2.0", id |-> request_id, result |-> result]

\* A plausible bug: an error response is built without the request's id.
create_response_noid(request_id, result, error) ==
    IF error # NoValue
    THEN [jsonrpc |-> "2.0", id |-> PyNone, error |-> error]
    ELSE [jsonrpc |-> "2.0", id |-> request_id, result |-> result]

create_response(request_id, result, error) ==
    IF error # NoValue
    THEN [jsonrpc |-> "2.0", id |-> request_id, error |-> error]
    ELSE [jsonrpc |-> "2.0", id |-> request_id, result |-> result]

(***************************************************************************)
(* A parsed JSON value handed to process_message.  t is its JSON type; for *)
(* an array or a string hasTag says whether "jsonrpc" in value holds; the  *)
(* other fields are the keys of an object (Absent when missing).           *)
(***************************************************************************)
NoArgs ==
    [t |-> "absent", resource |-> Absent, name |-> Absent, namespace |-> Absent,
     output |-> Absent, pod |-> Absent, container |-> Absent, path |-> Absent,
     tool |-> Absent, args |-> Absent, input |-> Absent, service |-> Absent,
     branch |-> Absent, force |-> Absent, message |-> Absent, files |-> Absent,
     all |-> Absent]

EmptyArgs == [NoArgs EXCEPT !.t = "object"]
BadArgs == [NoArgs EXCEPT !.t = "nonobject"]

NoParams ==
    [t |-> "absent", name |-> Absent, arguments |-> NoArgs, uri |-> Absent,
     clientInfo |-> Absent]
EmptyParams == [NoParams EXCEPT !.t = "object"]
BadParams == [NoParams EXCEPT !.t = "nonobject"]

Value(t, hasTag) ==
    [t |-> t, hasTag |-> hasTag, jsonrpc |-> Absent, id |-> Absent,
     method |-> Absent, params |-> NoParams]

Object(jsonrpc, id, method, params) ==
    [t |-> "object", hasTag |-> jsonrpc # Absent, jsonrpc |-> jsonrpc, id |-> id,
     method |-> method, params |-> params]

validate_message(message) ==
    CASE message.t \in {"number", "null"} ->
            \* "jsonrpc" not in message: the operand is not iterable
            [exc |-> TRUE, ok |-> FALSE, err |-> "TypeError"]
      [] message.t \in {"array", "string"} ->
            \* membership (substring) test, then message["jsonrpc"] on a list or str
            IF message.hasTag
            THEN [exc |-> TRUE, ok |-> FALSE, err |-> "TypeError"]
            ELSE [exc |-> FALSE, ok |-> FALSE, err |-> ""]
      [] OTHER ->
            IF message.jsonrpc = Absent \/ message.jsonrpc # "2.0"
            THEN [exc |-> FALSE, ok |-> FALSE, err |-> ""]
            ELSE IF message.method = Absent /\ message.id = Absent
            THEN [exc |-> FALSE, ok |-> FALSE, err |-> ""]
            ELSE [exc |-> FALSE, ok |-> TRUE, err |-> ""]

(***************************************************************************)
(* CommandExecutor                                                         *)
(*                                                                         *)
(* A command is a sequence of argv elements, each a string, PyNone or      *)
(* NonStr.  What the operating system does with a spawned process is the   *)
(* environment's choice, a process outcome:                                *)
(*   kind "spawnfail": the executable cannot be started (OSError);         *)
(*   kind "timeout":   the process has not exited when the timeout ends    *)
(*                     (it exits later, as rc, stdout and stderr say);     *)
(*   kind "never":     the process never exits;                            *)
(*   kind "exit":      it exits with code rc, having written stdout and    *)
(*                     stderr; utf8 says whether the output decodes.       *)
(***************************************************************************)
Proc(kind, rc, stdout, stderr, utf8) ==
    [kind |-> kind, rc |-> rc, stdout |-> stdout, stderr |-> stderr, utf8 |-> utf8]

ExitOk(stdout) == Proc("exit", 0, stdout, "", TRUE)
ExitFail == Proc("exit", 1, "", "boom", TRUE)
ExitUndecodable == Proc("exit", 0, "", "", FALSE)
TimesOut == Proc("timeout", 0, "", "", TRUE)
NeverExits == Proc("never", 0, "", "", TRUE)
SpawnFails == Proc("spawnfail", 0, "", "", TRUE)

AllStr(command) == \A i \in 1..Len(command) : command[i] \notin {PyNone, NonStr}

\* ' '.join(command), for a command of strings
RECURSIVE Join(_)
Join(command) ==
    IF command = <<>> THEN ""
    ELSE IF Len(command) = 1 THEN command[1]
    ELSE command[1] \o " " \o Join(Tail(command))

\* A plausible bug: success is told from the sign of the exit code.
ExecResult_nonneg(success, stdout, stderr, exitcode, duration) ==
    [success |-> exitcode >= 0, stdout |-> stdout, stderr |-> stderr,
     exitcode |-> exitcode, duration |-> duration]

ExecResult(success, stdout, stderr, exitcode, duration) ==
    [success |-> success, stdout |-> stdout, stderr |-> stderr,
     exitcode |-> exitcode, duration |-> duration]

\* A plausible bug: the timeout of the call is ignored.
EffectiveTimeout_default(timeout) == DefaultTimeout

\* timeout or self.timeout (0 stands for None as well as for 0)
EffectiveTimeout(timeout) == IF timeout = 0 THEN DefaultTimeout ELSE timeout

execute(command, cwd, timeout, dry_run, proc) ==
    IF dry_run
    THEN \* ' '.join(command) is evaluated before the try block
         IF AllStr(command)
         THEN Ret(ExecResult(TRUE, "DRY RUN: " \o Join(command), "", 0, "0"), 0, {})
         ELSE Raise("TypeError", 0, {})
    ELSE IF ~AllStr(command) \/ command = <<>> \/ cwd = NonStr
         THEN \* create_subprocess_exec raises TypeError: except Exception
              Ret(ExecResult(FALSE, "", "TypeError", -1, "elapsed"), 0, {})
    ELSE IF proc.kind = "spawnfail"
         THEN \* FileNotFoundError, PermissionError: except Exception
              Ret(ExecResult(FALSE, "", "OSError", -1, "elapsed"), 0, {})
    ELSE IF proc.kind \in {"timeout", "never"}
         THEN \* except asyncio.TimeoutError
              Ret(ExecResult(FALSE, "",
                    "Command timed out after " \o ToString(EffectiveTimeout(timeout)) \o " seconds",
                    -1, "timeout"), 1, {})
    ELSE IF ~proc.utf8
         THEN \* stdout.decode raises UnicodeDecodeError: except Exception
              Ret(ExecResult(FALSE, "", "UnicodeDecodeError", -1, "elapsed"), 1, {})
    ELSE Ret(ExecResult(proc.rc = 0, proc.stdout, proc.stderr, proc.rc, "elapsed"), 1, {})

\* The child process of a call of execute at the moment the call returns:
\* "none" when no process was started, "exited" when communicate() saw it
\* exit, "running" when wait_for gave up: the except asyncio.TimeoutError
\* branch returns the result and neither kills nor awaits the process.
execute_child(command, cwd, timeout, dry_run, proc) ==
    IF dry_run \/ ~AllStr(command) \/ command = <<>> \/ cwd = NonStr
       \/ proc.kind = "spawnfail"
    THEN "none"
    ELSE IF proc.kind \in {"timeout", "never"} THEN "running"
    ELSE "exited"

(***************************************************************************)
(* MCPServer: the registry, the resource table and the method handlers.    *)
(* env is what a handler reads besides its arguments: env.dry_run and      *)
(* env.tools are the server's state, env.procs[k] is the outcome of the    *)
(* k-th process the handler starts and env.repo says whether the git       *)
(* repository exists on disk.                                              *)
(***************************************************************************)
server_info == [name |-> "ai-sre-mcp-server", version |-> "1.0.0"]

capabilities ==
    [tools |-> [listChanged |-> TRUE],
     resources |-> [listChanged |-> TRUE, subscribe |-> TRUE],
     prompts |-> <<>>]

Tool(name, required) == [name |-> name, required |-> required]

InitTools ==
    [n \in {"kubectl_get", "kubectl_describe", "kubectl_logs", "flux_status",
            "git_status", "cli_tool", "health_check", "git_pull", "git_commit",
            "git_push"} |->
        CASE n = "kubectl_get" -> Tool(n, {"resource"})
          [] n = "kubectl_describe" -> Tool(n, {"resource", "name"})
          [] n = "kubectl_logs" -> Tool(n, {"pod"})
          [] n = "cli_tool" -> Tool(n, {"tool"})
          [] n = "git_commit" -> Tool(n, {"message"})
          [] OTHER -> Tool(n, {})]

resources ==
    [k \in {"config", "version", "tools"} |->
        CASE k = "config" -> [uri |-> "config://main", name |-> "Main Configuration"]
          [] k = "version" -> [uri |-> "version://info", name |-> "Version Information"]
          [] OTHER -> [uri |-> "tools://list", name |-> "Available Tools"]]

\* json.dumps(value, indent=2): the text that decodes to value
json_dumps(value) == [json |-> value]

\* str.strip() on the output texts of the model
Strip(s) == IF s = "out\n" THEN "out" ELSE s

\* whether json.loads accepts a process's output
IsJsonText(s) == s \in {"200", "{}"}

\* a list-valued tool argument: a list of strings, a list holding another
\* type, or (NonStr) no list at all
ArgList(a) ==
    CASE a = Absent -> <<>>
      [] a = "mixed" -> <<"arg", NonStr>>
      [] OTHER -> <<"arg">>

\* client_info = params.get("clientInfo", {}) is written to the log only
handle_initialize(params, env) ==
    IF params.t = "nonobject"
    THEN Raise("AttributeError", 0, {})
    ELSE Ret([protocolVersion |-> "2024-11-05", capabilities |-> capabilities,
              serverInfo |-> server_info], 0, {})

handle_tools_list(params, env) ==
    Ret([tools |-> {env.tools[n] : n \in DOMAIN env.tools}], 0, {})

_kubectl_get(args, env) ==
    IF args.t = "nonobject" THEN Raise("AttributeError", 0, {})
    ELSE
    LET resource == Get(args.resource, PyNone)
        namespace == Get(args.namespace, "default")
        name == Get(args.name, PyNone)
        output == Get(args.output, "json")
        cmd == <<"kubectl", "get", "-n", namespace, resource>>
               \o (IF Truthy(name) THEN <<name>> ELSE <<>>)
               \o <<"-o", output>>
        r == execute(cmd, PyNone, 0, env.dry_run, env.procs[1])
    IN  IF r.exc THEN r
        ELSE IF output = "json" /\ r.val.success
        THEN Ret(r.val @@ [data |-> [parsed |-> IsJsonText(r.val.stdout),
                                     text |-> r.val.stdout]], r.spawned, {})
        ELSE r

_kubectl_describe(args, env) ==
    IF args.t = "nonobject" THEN Raise("AttributeError", 0, {})
    ELSE
    LET resource == Get(args.resource, PyNone)
        name == Get(args.name, PyNone)
        namespace == Get(args.namespace, "default")
        cmd == <<"kubectl", "describe", "-n", namespace, resource, name>>
    IN  execute(cmd, PyNone, 0, env.dry_run, env.procs[1])

_kubectl_logs(args, env) ==
    IF args.t = "nonobject" THEN Raise("AttributeError", 0, {})
    ELSE
    LET pod == Get(args.pod, PyNone)
        namespace == Get(args.namespace, "default")
        container == Get(args.container, PyNone)
        cmd == <<"kubectl", "logs", "-n", namespace, "--tail", "100">>
               \o (IF Truthy(container) THEN <<"-c", container>> ELSE <<>>)
               \o <<pod>>
    IN  execute(cmd, PyNone, 0, env.dry_run, env.procs[1])

_flux_status(args, env) ==
    IF args.t = "nonobject" THEN Raise("AttributeError", 0, {})
    ELSE
    LET namespace == Get(args.namespace, "flux-system")
        resource == Get(args.resource, "all")
        cmd == <<"flux", "get", "-n", namespace, resource>>
    IN  execute(cmd, PyNone, 0, env.dry_run, env.procs[1])

_git_status(args, env) ==
    IF args.t = "nonobject" THEN Raise("AttributeError", 0, {})
    ELSE
    LET path == Get(args.path, "/app/k8s-repo")
    IN  execute(<<"git", "status", "--porcelain">>, path, 0, env.dry_run, env.procs[1])

_cli_tool(args, env) ==
    IF args.t = "nonobject" THEN Raise("AttributeError", 0, {})
    ELSE IF args.args = NonStr THEN Raise("TypeError", 0, {})   \* [tool] + tool_args
    ELSE
    LET tool == Get(args.tool, PyNone)
        input_data == Get(args.input, PyNone)
        cmd == <<tool>> \o ArgList(args.args)
        proc == env.procs[1]
    IN  IF Truthy(input_data)
        THEN \* piped input: the process is started here, not by the executor
             IF ~AllStr(cmd) THEN Raise("TypeError", 0, {})
             ELSE IF proc.kind = "spawnfail" THEN Raise("OSError", 0, {})
             ELSE IF input_data = NonStr THEN Raise("AttributeError", 1, {})
             ELSE IF proc.kind = "never" THEN Hang(1, {})
             ELSE IF ~proc.utf8 THEN Raise("UnicodeDecodeError", 1, {})
             ELSE Ret([success |-> proc.rc = 0, stdout |-> proc.stdout,
                       stderr |-> proc.stderr, exitcode |-> proc.rc], 1, {})
        ELSE execute(cmd, PyNone, 0, env.dry_run, proc)

\* A plausible bug: the output of the probe is not compared with "200".
_health_check_anyoutput(args, env) ==
    IF args.t = "nonobject" THEN Raise("AttributeError", 0, {})
    ELSE
    LET service == Get(args.service, PyNone)
    IN  IF Truthy(service)
        THEN LET cmd == <<"curl", "-s", "-o", "/dev/null", "-w", "%{http_code}",
                          "http://" \o service \o ":8080/health">>
                 r == execute(cmd, PyNone, 0, env.dry_run, env.procs[1])
             IN  IF r.exc THEN r
                 ELSE Ret([service |-> service,
                           status |-> IF r.val.success THEN "healthy" ELSE "unhealthy",
                           response_code |-> Strip(r.val.stdout)], r.spawned, {})
        ELSE Ret([status |-> "healthy", timestamp |-> "now", server |-> server_info], 0, {})

_health_check(args, env) ==
    IF args.t = "nonobject" THEN Raise("AttributeError", 0, {})
    ELSE
    LET service == Get(args.service, PyNone)
    IN  IF Truthy(service)
        THEN LET cmd == <<"curl", "-s", "-o", "/dev/null", "-w", "%{http_code}",
                          "http://" \o service \o ":8080/health">>
                 r == execute(cmd, PyNone, 0, env.dry_run, env.procs[1])
             IN  IF r.exc THEN r
                 ELSE Ret([service |-> service,
                           status |-> IF r.val.success /\ Strip(r.val.stdout) = "200"
                                      THEN "healthy" ELSE "unhealthy",
                           response_code |-> Strip(r.val.stdout)], r.spawned, {})
        ELSE Ret([status |-> "healthy", timestamp |-> "now", server |-> server_info], 0, {})

RepoPath == "/app/k8s-repo"

GitFail(error) == [success |-> FALSE, error |-> error]

Git(cmd, env, k) == execute(cmd, RepoPath, 0, env.dry_run, env.procs[k])

_git_pull(args, env) ==
    IF args.t = "nonobject" THEN Raise("AttributeError", 0, {})
    ELSE IF ~env.repo THEN Ret(GitFail("Git repository not found at " \o RepoPath), 0, {})
    ELSE
    LET given == Get(args.branch, PyNone)
        force == Truthy(Get(args.force, "false"))
        ask == ~Truthy(given)
        k == IF ask THEN 1 ELSE 0
        cur == Git(<<"git", "branch", "--show-current">>, env, 1)
        branch == IF ~ask THEN given
                  ELSE IF cur.val.success THEN Strip(cur.val.stdout) ELSE "main"
        n0 == IF ask THEN cur.spawned ELSE 0
        fetch == Git(<<"git", "fetch", "origin">>, env, k + 1)
        sync == IF force
                THEN Git(<<"git", "reset", "--hard", "origin/" \o branch>>, env, k + 2)
                ELSE Git(<<"git", "pull", "origin", branch>>, env, k + 2)
        status == Git(<<"git", "status", "--porcelain">>, env, k + 3)
        log == Git(<<"git", "log", "--oneline", "-1">>, env, k + 4)
    IN  IF ~fetch.val.success
        THEN Ret(GitFail("Failed to fetch from origin: " \o fetch.val.stderr),
                 n0 + fetch.spawned, {})
        ELSE IF sync.exc
        THEN Ret(GitFail("Git pull failed: " \o sync.err), n0 + fetch.spawned, {})
        ELSE IF ~sync.val.success
        THEN Ret(GitFail((IF force THEN "Failed to reset to origin/"
                                   ELSE "Failed to pull from origin/")
                         \o branch \o ": " \o sync.val.stderr),
                 n0 + fetch.spawned + sync.spawned, {})
        ELSE Ret([success |-> TRUE, branch |-> branch, force |-> force,
                  status |-> IF status.val.success THEN Strip(status.val.stdout) ELSE "",
                  latest_commit |-> IF log.val.success THEN Strip(log.val.stdout) ELSE "",
                  message |-> "Successfully pulled latest changes from origin/" \o branch],
                 n0 + fetch.spawned + sync.spawned + status.spawned + log.spawned, {})

_git_commit(args, env) ==
    IF args.t = "nonobject" THEN Raise("AttributeError", 0, {})
    ELSE IF ~env.repo THEN Ret(GitFail("Git repository not found at " \o RepoPath), 0, {})
    ELSE
    LET message == Get(args.message, PyNone)
        commit_all == Truthy(Get(args.all, "false"))
        status == Git(<<"git", "status", "--porcelain">>, env, 1)
        addcmd == IF commit_all THEN <<"git", "add", "-A">>
                  ELSE IF Truthy(args.files) THEN <<"git", "add">> \o ArgList(args.files)
                  ELSE <<"git", "add", "-u">>
        add == Git(addcmd, env, 2)
        commit == Git(<<"git", "commit", "-m", message>>, env, 3)
        hash == Git(<<"git", "rev-parse", "HEAD">>, env, 4)
    IN  IF ~status.val.success \/ Strip(status.val.stdout) = ""
        THEN Ret([success |-> TRUE, message |-> "No changes to commit",
                  status |-> Strip(status.val.stdout)], status.spawned, {})
        ELSE IF ~commit_all /\ args.files = NonStr
        THEN \* ['git', 'add'] + files
             Ret(GitFail("Git commit failed: TypeError"), status.spawned, {})
        ELSE IF add.exc
        THEN Ret(GitFail("Git commit failed: " \o add.err), status.spawned, {})
        ELSE IF ~add.val.success
        THEN Ret(GitFail("Failed to stage files: " \o add.val.stderr),
                 status.spawned + add.spawned, {})
        ELSE IF commit.exc
        THEN Ret(GitFail("Git commit failed: " \o commit.err),
                 status.spawned + add.spawned, {})
        ELSE IF ~commit.val.success
        THEN Ret(GitFail("Failed to commit: " \o commit.val.stderr),
                 status.spawned + add.spawned + commit.spawned, {})
        ELSE Ret([success |-> TRUE, message |-> "Successfully committed: " \o message,
                  commit_hash |-> IF hash.val.success THEN Strip(hash.val.stdout) ELSE "",
                  files_committed |-> IF Truthy(args.files) THEN "files"
                                      ELSE "all modified files"],
                 status.spawned + add.spawned + commit.spawned + hash.spawned, {})

_git_push(args, env) ==
    IF args.t = "nonobject" THEN Raise("AttributeError", 0, {})
    ELSE IF ~env.repo THEN Ret(GitFail("Git repository not found at " \o RepoPath), 0, {})
    ELSE
    LET given == Get(args.branch, PyNone)
        force == Truthy(Get(args.force, "false"))
        ask == ~Truthy(given)
        k == IF ask THEN 1 ELSE 0
        cur == Git(<<"git", "branch", "--show-current">>, env, 1)
        branch == IF ~ask THEN given
                  ELSE IF cur.val.success THEN Strip(cur.val.stdout) ELSE "main"
        n0 == IF ask THEN cur.spawned ELSE 0
        \* the range is the literal text origin/{branch}..HEAD
        ahead == Git(<<"git", "log", "origin/{branch}..HEAD", "--oneline">>, env, k + 1)
        push == Git(<<"git", "push", "origin", branch>>
                    \o (IF force THEN <<"--force">> ELSE <<>>), env, k + 2)
    IN  IF Strip(ahead.val.stdout) = ""
        THEN Ret([success |-> TRUE, message |-> "No commits to push to origin/" \o branch,
                  branch |-> branch], n0 + ahead.spawned, {})
        ELSE IF push.exc
        THEN Ret(GitFail("Git push failed: " \o push.err), n0 + ahead.spawned, {})
        ELSE IF ~push.val.success
        THEN Ret(GitFail("Failed to push to origin/" \o branch \o ": " \o push.val.stderr),
                 n0 + ahead.spawned + push.spawned, {})
        ELSE Ret([success |-> TRUE, message |-> "Successfully pushed to origin/" \o branch,
                  branch |-> branch, force |-> force,
                  commits_pushed |-> Strip(push.val.stdout)],
                 n0 + ahead.spawned + push.spawned, {})

\* A plausible bug: a tool is registered but has no branch in the dispatch.
_execute_tool_nopush(tool_name, arguments, env) ==
    CASE tool_name = "kubectl_get" -> _kubectl_get(arguments, env)
      [] tool_name = "kubectl_describe" -> _kubectl_describe(arguments, env)
      [] tool_name = "kubectl_logs" -> _kubectl_logs(arguments, env)
      [] tool_name = "flux_status" -> _flux_status(arguments, env)
      [] tool_name = "git_status" -> _git_status(arguments, env)
      [] tool_name = "cli_tool" -> _cli_tool(arguments, env)
      [] tool_name = "health_check" -> _health_check(arguments, env)
      [] tool_name = "git_pull" -> _git_pull(arguments, env)
      [] tool_name = "git_commit" -> _git_commit(arguments, env)
      [] OTHER -> Raise("Unknown tool: " \o tool_name, 0, {})

_execute_tool(tool_name, arguments, env) ==
    CASE tool_name = "kubectl_get" -> _kubectl_get(arguments, env)
      [] tool_name = "kubectl_describe" -> _kubectl_describe(arguments, env)
      [] tool_name = "kubectl_logs" -> _kubectl_logs(arguments, env)
      [] tool_name = "flux_status" -> _flux_status(arguments, env)
      [] tool_name = "git_status" -> _git_status(arguments, env)
      [] tool_name = "cli_tool" -> _cli_tool(arguments, env)
      [] tool_name = "health_check" -> _health_check(arguments, env)
      [] tool_name = "git_pull" -> _git_pull(arguments, env)
      [] tool_name = "git_commit" -> _git_commit(arguments, env)
      [] tool_name = "git_push" -> _git_push(arguments, env)
      [] OTHER -> Raise("Unknown tool: " \o tool_name, 0, {})

\* the try block of handle_tools_call around the outcome r of _execute_tool
ToolContent(r) ==
    IF r.hang THEN r
    ELSE IF r.exc
    THEN Raise("Tool execution failed: " \o r.err, r.spawned, {})
    ELSE Ret([content |-> <<[type |-> "text", text |-> json_dumps(r.val)]>>],
             r.spawned, {})

\* A plausible bug: no registry check, an unknown name is run as a command.
handle_tools_call_unchecked(params, env) ==
    IF params.t = "nonobject" THEN Raise("AttributeError", 0, {})
    ELSE
    LET tool_name == Get(params.name, PyNone)
    IN  IF tool_name \in DOMAIN env.tools
        THEN ToolContent(_execute_tool(tool_name, params.arguments, env))
        ELSE ToolContent(_cli_tool([EmptyArgs EXCEPT !.tool = tool_name], env))

handle_tools_call(params, env) ==
    IF params.t = "nonobject" THEN Raise("AttributeError", 0, {})
    ELSE
    LET tool_name == Get(params.name, PyNone)
        arguments == params.arguments
    IN  IF tool_name = NonStr
        THEN Raise("TypeError", 0, {})          \* an unhashable name in self.tools
        ELSE IF tool_name \notin DOMAIN env.tools
        THEN Raise("Unknown tool: " \o tool_name, 0, {})
        ELSE ToolContent(_execute_tool(tool_name, arguments, env))

handle_resources_list(params, env) ==
    Ret([resources |-> {resources[k] : k \in DOMAIN resources}], 0, {})

\* A plausible bug: no membership test, an unknown uri is served by the final
\* else of the chain.
handle_resources_read_lenient(params, env) ==
    IF params.t = "nonobject" THEN Raise("AttributeError", 0, {})
    ELSE
    LET uri == Get(params.uri, PyNone)
    IN  Ret([contents |-> <<[uri |-> uri, mimeType |-> "application/json",
                            text |-> json_dumps([error |-> "Unknown resource"])]>>], 0, {})

handle_resources_read(params, env) ==
    IF params.t = "nonobject" THEN Raise("AttributeError", 0, {})
    ELSE
    LET uri == Get(params.uri, PyNone)
        content ==
            CASE uri = "config://main" ->
                    [tools_enabled |-> DOMAIN env.tools, server_info |-> server_info,
                     capabilities |-> capabilities]
              [] uri = "version://info" ->
                    [server |-> server_info, tools_count |-> Cardinality(DOMAIN env.tools),
                     resources_count |-> Cardinality(DOMAIN resources),
                     timestamp |-> "now"]
              [] uri = "tools://list" ->
                    [available_tools |-> DOMAIN env.tools, tools |-> env.tools]
              [] OTHER -> [error |-> "Unknown resource"]
    IN  IF uri \notin {resources[k].uri : k \in DOMAIN resources}
        THEN Raise("Unknown resource: " \o uri, 0, {})
        ELSE Ret([contents |-> <<[uri |-> uri, mimeType |-> "application/json",
                                  text |-> json_dumps(content)]>>], 0, {})

handle_notification(method, params) == Ret(NoValue, 0, {})

Entered(r, h) == [r EXCEPT !.ran = {h}]

\* return MCPMessage.create_response(message_id, result) after a handler
Respond(r, message_id, h) ==
    IF r.exc \/ r.hang THEN Entered(r, h)
    ELSE Ret(create_response(message_id, r.val, NoValue), r.spawned, {h})

\* A plausible bug: no final else, an unrouted method falls off the end.
Route_noelse(method, message_id, params, env) ==
    CASE method = "initialize" ->
            Respond(handle_initialize(params, env), message_id, "handle_initialize")
      [] method = "tools/list" ->
            Respond(handle_tools_list(params, env), message_id, "handle_tools_list")
      [] method = "tools/call" ->
            Respond(handle_tools_call(params, env), message_id, "handle_tools_call")
      [] method = "resources/list" ->
            Respond(handle_resources_list(params, env), message_id, "handle_resources_list")
      [] method = "resources/read" ->
            Respond(handle_resources_read(params, env), message_id, "handle_resources_read")
      [] method = "notifications/cancelled" ->
            Entered(handle_notification(method, params), "handle_notification")
      [] OTHER -> Ret(NoValue, 0, {})

\* the body of the try block of process_message
Route(method, message_id, params, env) ==
    CASE method = "initialize" ->
            Respond(handle_initialize(params, env), message_id, "handle_initialize")
      [] method = "tools/list" ->
            Respond(handle_tools_list(params, env), message_id, "handle_tools_list")
      [] method = "tools/call" ->
            Respond(handle_tools_call(params, env), message_id, "handle_tools_call")
      [] method = "resources/list" ->
            Respond(handle_resources_list(params, env), message_id, "handle_resources_list")
      [] method = "resources/read" ->
            Respond(handle_resources_read(params, env), message_id, "handle_resources_read")
      [] method = "notifications/cancelled" ->
            Entered(handle_notification(method, params), "handle_notification")
      [] OTHER ->
            Ret(create_response(message_id, NoValue,
                                Err(-32601, "Method not found: " \o method)), 0, {})

\* A plausible bug: no try/except around the routing.
process_message_notry(message, env) ==
    LET v == validate_message(message)
    IN  IF v.exc THEN Raise(v.err, 0, {})
        ELSE IF ~v.ok
        THEN IF message.t # "object" THEN Raise("AttributeError", 0, {})
             ELSE Ret(create_response(Get(message.id, "0"), NoValue,
                                      Err(-32600, "Invalid Request")), 0, {})
        ELSE Route(Get(message.method, PyNone), Get(message.id, PyNone),
                   message.params, env)

\* except Exception as e: of process_message, around the outcome r of the routing
InternalError(r, message_id) ==
    IF r.exc
    THEN Ret(create_response(message_id, NoValue,
                             Err(-32603, "Internal error: " \o r.err)),
             r.spawned, r.ran)
    ELSE r

process_message(message, env) ==
    LET v == validate_message(message)
    IN  IF v.exc THEN Raise(v.err, 0, {})
        ELSE IF ~v.ok
        THEN \* message.get("id", 0) on a value that is no dict raises
             IF message.t # "object" THEN Raise("AttributeError", 0, {})
             ELSE Ret(create_response(Get(message.id, "0"), NoValue,
                                      Err(-32600, "Invalid Request")), 0, {})
        ELSE
        LET method == Get(message.method, PyNone)
            message_id == Get(message.id, PyNone)
            params == message.params
        IN  InternalError(Route(method, message_id, params, env), message_id)

(***************************************************************************)
(* MCPWebSocketHandler.  A text frame is malformed (json.loads raises      *)
(* JSONDecodeError), nonstd (text that is no JSON but that json.loads      *)
(* accepts: it holds the literal NaN or Infinity) or json; value is what   *)
(* json.loads returns.                                                     *)
(***************************************************************************)
Frame(kind, value) == [kind |-> kind, value |-> value]

json_loads(frame) ==
    IF frame.kind = "malformed"
    THEN [exc |-> TRUE, val |-> Value("null", FALSE)]
    ELSE [exc |-> FALSE, val |-> frame.value]

Handled(loop, sent, r) ==
    [loop |-> loop, sent |-> sent, raised |-> r.exc, spawned |-> r.spawned, ran |-> r.ran]

\* if response: await ws.send_str(json.dumps(response)), and except Exception;
\* r is the outcome of process_message and uncaught where the loop goes when
\* it raised
Send(r, uncaught) ==
    IF r.hang THEN Handled("blocked", <<>>, r)
    ELSE IF r.exc THEN Handled(uncaught, <<>>, r)
    ELSE Handled("continue", IF r.val # NoValue THEN <<r.val>> ELSE <<>>, r)

\* A plausible bug: the handler lacks the catch-all except of the frame.
on_text_nocatch(frame, env) ==
    LET p == json_loads(frame)
    IN  IF p.exc
        THEN Handled("continue",
                     <<create_response("0", NoValue, Err(-32700, "Parse error"))>>,
                     Ret(NoValue, 0, {}))
        ELSE Send(process_message(p.val, env), "exit")

\* the body of the loop for a frame of type TEXT
on_text(frame, env) ==
    LET p == json_loads(frame)
    IN  IF p.exc
        THEN \* except json.JSONDecodeError
             Handled("continue",
                     <<create_response("0", NoValue, Err(-32700, "Parse error"))>>,
                     Ret(NoValue, 0, {}))
        ELSE Send(process_message(p.val, env), "continue")   \* except Exception

(***************************************************************************)
(* MCPHTTPServer.handle_http_mcp: the body of a POST to /mcp/http is read  *)
(* with request.json(), which parses as json.loads does.  The outcome is   *)
(* the HTTP status and the JSON body of the answer.                        *)
(***************************************************************************)
HttpAnswer(status, body, r) ==
    [hang |-> r.hang, status |-> status, body |-> body, spawned |-> r.spawned,
     ran |-> r.ran]

\* the rest of the try block and except Exception, on the outcome r of
\* process_message
HttpReply(r) ==
    IF r.hang THEN HttpAnswer(0, NoValue, r)
    ELSE IF r.exc THEN HttpAnswer(500, [error |-> r.err], r)
    ELSE IF r.val # NoValue THEN HttpAnswer(200, r.val, r)
    ELSE HttpAnswer(200, [status |-> "notification_processed"], r)

handle_http_mcp(request, env) ==
    LET p == json_loads(request)
    IN  IF p.exc
        THEN HttpAnswer(500, [error |-> "JSONDecodeError"], Ret(NoValue, 0, {}))
        ELSE HttpReply(process_message(p.val, env))

(***************************************************************************)
(* The inputs: the frames a client sends and what the operating system     *)
(* does with the processes a tool call starts.                             *)
(***************************************************************************)
Call(name, arguments) == [EmptyParams EXCEPT !.name = name, !.arguments = arguments]
Read(uri) == [EmptyParams EXCEPT !.uri = uri]

ArgsFor(name) ==
    CASE name = "kubectl_get" ->
            {EmptyArgs, BadArgs,
             [EmptyArgs EXCEPT !.resource = "pods"],
             [EmptyArgs EXCEPT !.resource = "pods", !.name = "web", !.output = "yaml"],
             [EmptyArgs EXCEPT !.resource = NonStr]}
      [] name = "kubectl_describe" ->
            {EmptyArgs, [EmptyArgs EXCEPT !.resource = "pods", !.name = "web"]}
      [] name = "kubectl_logs" ->
            {EmptyArgs, [EmptyArgs EXCEPT !.pod = "web", !.container = "app"]}
      [] name = "flux_status" ->
            {NoArgs, [EmptyArgs EXCEPT !.resource = NonStr]}
      [] name = "git_status" ->
            {NoArgs, [EmptyArgs EXCEPT !.path = NonStr]}
      [] name = "cli_tool" ->
            {EmptyArgs,
             [EmptyArgs EXCEPT !.tool = "jq", !.args = "strs"],
             [EmptyArgs EXCEPT !.tool = "jq", !.args = "mixed"],
             [EmptyArgs EXCEPT !.tool = "jq", !.args = NonStr],
             [EmptyArgs EXCEPT !.tool = "jq", !.input = "data"],
             [EmptyArgs EXCEPT !.tool = "jq", !.input = NonStr],
             [EmptyArgs EXCEPT !.input = "data"]}
      [] name = "health_check" ->
            {NoArgs, BadArgs, [EmptyArgs EXCEPT !.service = "api"]}
      [] name = "git_pull" ->
            {NoArgs, [EmptyArgs EXCEPT !.branch = "dev", !.force = "true"],
             [EmptyArgs EXCEPT !.branch = NonStr]}
      [] name = "git_commit" ->
            {EmptyArgs, [EmptyArgs EXCEPT !.message = "fix"],
             [EmptyArgs EXCEPT !.message = "fix", !.files = "mixed"],
             [EmptyArgs EXCEPT !.message = "fix", !.files = NonStr]}
      [] name = "git_push" ->
            {NoArgs, [EmptyArgs EXCEPT !.branch = "dev", !.force = "true"],
             [EmptyArgs EXCEPT !.branch = NonStr]}
      [] OTHER -> {NoArgs}

ToolParams ==
    {BadParams, EmptyParams, Call("nope", NoArgs), Call(NonStr, NoArgs)}
    \cup UNION {{Call(n, a) : a \in ArgsFor(n)} : n \in DOMAIN InitTools}

Routed ==
    {"initialize", "tools/list", "tools/call", "resources/list", "resources/read",
     "notifications/cancelled"}

\* the <<method, params>> pairs of the envelope-valid messages
Calls ==
    {<<"initialize", p>> : p \in {NoParams, EmptyParams, BadParams,
                                   [EmptyParams EXCEPT !.clientInfo = "client"]}}
    \cup {<<"tools/list", p>> : p \in {NoParams, BadParams}}
    \cup {<<"resources/list", NoParams>>}
    \cup {<<"resources/read", p>> :
            p \in {NoParams, BadParams}
                  \cup {Read(u) : u \in {"config://main", "version://info",
                                         "tools://list", "bogus://x", NonStr}}}
    \cup {<<"notifications/cancelled", NoParams>>}
    \cup {<<m, NoParams>> : m \in {"bogus/method", NonStr, Absent}}
    \cup {<<"tools/call", p>> : p \in ToolParams}

\* every call as a request and as a notification; the calls that start no
\* process also under a second request id
ValidEnvelopes ==
    ({Object("2.0", id, c[1], c[2]) : id \in {Absent, "1"}, c \in Calls}
     \cup {Object("2.0", "2", c[1], c[2]) : c \in {d \in Calls : d[1] # "tools/call"}})
    \ {Object("2.0", Absent, Absent, NoParams)}

InvalidEnvelopes ==
    {Object(v, id, m, p) : v \in {Absent, "1.0"}, id \in {Absent, "1"},
                           m \in {Absent, "tools/list", "tools/call"},
                           p \in {NoParams, Call("health_check", NoArgs)}}
    \cup {Object("2.0", Absent, Absent, NoParams)}

NonObjects ==
    {Value("array", FALSE), Value("array", TRUE), Value("string", FALSE),
     Value("string", TRUE), Value("number", FALSE), Value("null", FALSE)}

TextFrames ==
    {Frame("malformed", Value("null", FALSE)),
     Frame("nonstd", Value("number", FALSE)),
     Frame("nonstd", Object("2.0", "NaN", "tools/list", NoParams))}
    \cup {Frame("json", v) : v \in NonObjects \cup InvalidEnvelopes \cup ValidEnvelopes}

ProcOutcomes ==
    {ExitOk("{}"), ExitOk("out\n"), ExitFail, ExitUndecodable, TimesOut, NeverExits,
     SpawnFails}

ProcSlots == 1..5

World(procs, repo) == [procs |-> procs, repo |-> repo]
Quiet == World([k \in ProcSlots |-> ExitOk("out\n")], TRUE)
First(p) == World([Quiet.procs EXCEPT ![1] = p], TRUE)

GitWorlds ==
    {Quiet, World(Quiet.procs, FALSE)}
    \cup {World([Quiet.procs EXCEPT ![k] = ExitFail], TRUE) : k \in ProcSlots}
    \cup {World([Quiet.procs EXCEPT ![k] = ExitOk("")], TRUE) : k \in {1, 2}}

\* the worlds that can make a difference to the handling of a frame
WorldsFor(frame) ==
    LET m == frame.value
        a == m.params.arguments
    IN  IF frame.kind = "malformed" \/ m.t # "object" \/ m.method # "tools/call"
           \/ m.params.t = "nonobject" \/ m.params.name \notin DOMAIN InitTools
           \/ a.t = "nonobject"
        THEN {Quiet}
        ELSE IF m.id = Absent
        THEN {Quiet, First(ExitFail), First(NeverExits)}
        ELSE IF m.params.name \in {"git_pull", "git_commit", "git_push"}
        THEN GitWorlds
        ELSE IF m.params.name = "health_check"
        THEN IF Truthy(a.service) THEN {First(p) : p \in ProcOutcomes \cup {ExitOk("200")}}
             ELSE {Quiet}
        ELSE {First(p) : p \in ProcOutcomes}

(***************************************************************************)
(* The REST server (mcp_server.py): its CLI tool registry is the tools     *)
(* dictionary of the CLIHandler the server refers to as self.cli.  heap    *)
(* holds the registries of the CLIHandler objects constructed so far, in   *)
(* the order of construction; a reference to a handler is its index.       *)
(***************************************************************************)
MaxReloads == 2

AvailableTools ==
    [curl |-> [cmd |-> "curl", category |-> "network"],
     grep |-> [cmd |-> "grep", category |-> "text"],
     jq |-> [cmd |-> "jq", category |-> "json"]]

ToolConfig(categories, disabled, enabled) ==
    [t |-> "mapping", enabled_categories |-> categories, disabled_tools |-> disabled,
     enabled_tools |-> enabled]

\* ConfigManager._load_config without a config file and TOOLS_* variables
DefaultConfig == ToolConfig({"all"}, {}, {})

\* a config file that says "tools:" with nothing under it
NullConfig == [t |-> "null"]

\* the value of the key tools after a load
ConfigFiles ==
    {DefaultConfig,
     ToolConfig({"all"}, {"curl"}, {}),
     ToolConfig({"text"}, {}, {"jq"}),
     NullConfig}

\* A plausible bug: the test for enabled_tools comes before the one for
\* disabled_tools.
_build_active_tools_enabled_first(tool_config) ==
    [n \in {t \in DOMAIN AvailableTools :
              \/ t \in tool_config.enabled_tools
              \/ /\ t \notin tool_config.disabled_tools
                 /\ \/ "all" \in tool_config.enabled_categories
                    \/ AvailableTools[t].category \in tool_config.enabled_categories}
        |-> AvailableTools[n].cmd]

_build_active_tools(tool_config) ==
    [n \in {t \in DOMAIN AvailableTools :
              /\ t \notin tool_config.disabled_tools
              /\ \/ t \in tool_config.enabled_tools
                 \/ "all" \in tool_config.enabled_categories
                 \/ AvailableTools[t].category \in tool_config.enabled_categories}
        |-> AvailableTools[n].cmd]

\* CLIHandler.execute up to its first await, on the handler whose registry
\* is self_tools: the membership check and the lookup of the command
cli_execute(self_tools, tool) ==
    IF tool \notin DOMAIN self_tools
    THEN [tool |-> tool, known |-> FALSE, cmd |-> PyNone]
    ELSE [tool |-> tool, known |-> TRUE, cmd |-> self_tools[tool]]

RestReqs == {"r1"}

\* the invocations of _handle_sops that may overlap, and the AGE key each
\* is given
SopsCalls == {"s1", "s2"}
KeyOf(i) == IF i = "s1" THEN "AGE-KEY-1" ELSE "AGE-KEY-2"

\* the two fixed paths of _handle_sops, /tmp/sops_age_key and /tmp/sops_input,
\* each with its content, or Absent when there is no such file
NoFiles == [age_key_file |-> Absent, temp_file |-> Absent]

\* MCPServer.__init__ of the REST server: no request is being served, the
\* tools have not been listed and _handle_sops has not been called
RestInit ==
    [config |-> DefaultConfig,
     heap |-> <<_build_active_tools(DefaultConfig)>>,
     cli |-> 1,
     reloads |-> 0,
     status |-> 0,
     reqs |-> [r \in RestReqs |->
                  [pc |-> "idle", via |-> "none", handler |-> 0, at |-> 0,
                   registry |-> _build_active_tools(ToolConfig({}, {}, {})),
                   todo |-> <<>>, steps |-> <<>>, result |-> "none"]],
     listed |-> [at |-> -1, active_tools |-> {}],
     files |-> NoFiles,
     sops |-> [i \in SopsCalls |->
                  [pc |-> "idle", age_key |-> Absent, operation |-> Absent,
                   source |-> Absent, piped |-> FALSE, success |-> FALSE]]]

(***************************************************************************)
(* The state: the executor's configuration and the registry of the one     *)
(* MCPServer, and per WebSocket connection the state of its message loop.  *)
(* last records the frame handled last and what the handler did with it;   *)
(* prev is the class of the text frame handled before that one; pending is *)
(* the frame a connection's loop is handling while its handler is          *)
(* suspended, and outbox the responses written to the connection so far.   *)
(* rest is the state of the REST server of mcp_server.py.                  *)
(***************************************************************************)
VARIABLES dry_run, tools, ws, recvd, prev, last, call, pending, outbox, rest

vars == <<dry_run, tools, ws, recvd, prev, last, call, pending, outbox, rest>>

Conns == {"c1"}

NoFrame == Frame("none", Value("null", FALSE))
NoCall == [fn |-> "none"]

\* no message of the connection is being handled
NoPending == [n |-> 0, frame |-> NoFrame, world |-> Quiet]

\* ws.send_str: the responses written to a connection, each by the number of
\* the frame it answers
Written(sent_before, n, sent) == IF sent = <<>> THEN sent_before ELSE Append(sent_before, n)

Event(op, c) ==
    [op |-> op, conn |-> c, frame |-> NoFrame, world |-> Quiet, loop |-> "continue",
     sent |-> <<>>, raised |-> FALSE, spawned |-> 0, ran |-> {}, cls |-> "none"]

Env(world) ==
    [dry_run |-> dry_run, tools |-> tools, procs |-> world.procs, repo |-> world.repo]

IsUnknownToolCall(frame) ==
    /\ frame.kind # "malformed"
    /\ frame.value.t = "object"
    /\ validate_message(frame.value).ok
    /\ frame.value.method = "tools/call"
    /\ frame.value.params.t # "nonobject"
    /\ Get(frame.value.params.name, PyNone) \notin DOMAIN InitTools

Class(frame, h) ==
    IF h.raised THEN "dropped"
    ELSE IF h.loop = "blocked" THEN "blocked"
    ELSE IF h.sent = <<>> THEN "silent"
    ELSE IF "error" \notin DOMAIN h.sent[1]
    THEN IF "protocolVersion" \in DOMAIN h.sent[1].result THEN "initialized" ELSE "ok"
    ELSE IF h.sent[1].error.code = -32700 THEN "parse_error"
    ELSE IF IsUnknownToolCall(frame) THEN "unknown_tool"
    ELSE "error"

\* MCPServer.__init__ and no connection yet
Idle ==
    /\ tools = InitTools
    /\ ws = [c \in Conns |-> "idle"]
    /\ recvd = [c \in Conns |-> 0]
    /\ prev = [c \in Conns |-> "none"]
    /\ last = Event("init", "c1")
    /\ pending = [c \in Conns |-> NoPending]
    /\ outbox = [c \in Conns |-> <<>>]
    /\ rest = RestInit

Init ==
    /\ dry_run \in BOOLEAN
    /\ Idle
    /\ call = NoCall

\* websocket_handler up to the start of the loop
Connect(c) ==
    /\ ws[c] = "idle"
    /\ ws' = [ws EXCEPT ![c] = "open"]
    /\ last' = Event("connect", c)
    /\ UNCHANGED <<dry_run, tools, recvd, prev, call, pending, outbox, rest>>

Shift(c) == IF last.op = "text" /\ last.conn = c THEN last.cls ELSE prev[c]

\* A plausible bug: a session gate, every method but initialize is refused
\* until an initialize request has been answered on the connection.
RecvText_gated(c) ==
    /\ ws[c] = "open"
    /\ recvd[c] < MaxFrames
    /\ \E frame \in TextFrames :
         \E world \in WorldsFor(frame) :
            \E h \in {IF Shift(c) = "initialized" \/ frame.value.method = "initialize"
                         \/ frame.kind = "malformed"
                      THEN on_text(frame, Env(world))
                      ELSE Handled("continue",
                                   <<create_response(Get(frame.value.id, PyNone), NoValue,
                                                     Err(-32002, "Server not initialized"))>>,
                                   Ret(NoValue, 0, {}))} :
                /\ ws' = [ws EXCEPT ![c] = CASE h.loop = "continue" -> "open"
                                             [] h.loop = "blocked" -> "blocked"
                                             [] OTHER -> "closed"]
                /\ last' = [op |-> "text", conn |-> c, frame |-> frame, world |-> world,
                            loop |-> h.loop, sent |-> h.sent, raised |-> h.raised,
                            spawned |-> h.spawned, ran |-> h.ran,
                            cls |-> Class(frame, h)]
    /\ recvd' = [recvd EXCEPT ![c] = @ + 1]
    /\ prev' = [prev EXCEPT ![c] = Shift(c)]
    /\ outbox' = [outbox EXCEPT ![c] = Written(@, recvd[c] + 1, last'.sent)]
    /\ UNCHANGED <<dry_run, tools, call, pending, rest>>

\* one iteration of the loop for a TEXT frame
RecvText(c) ==
    /\ ws[c] = "open"
    /\ recvd[c] < MaxFrames
    /\ \E frame \in TextFrames :
         \E world \in WorldsFor(frame) :
            \E h \in {on_text(frame, Env(world))} :
                /\ ws' = [ws EXCEPT ![c] = CASE h.loop = "continue" -> "open"
                                             [] h.loop = "blocked" -> "blocked"
                                             [] OTHER -> "closed"]
                /\ last' = [op |-> "text", conn |-> c, frame |-> frame, world |-> world,
                            loop |-> h.loop, sent |-> h.sent, raised |-> h.raised,
                            spawned |-> h.spawned, ran |-> h.ran,
                            cls |-> Class(frame, h)]
    /\ recvd' = [recvd EXCEPT ![c] = @ + 1]
    /\ prev' = [prev EXCEPT ![c] = Shift(c)]
    /\ outbox' = [outbox EXCEPT ![c] = Written(@, recvd[c] + 1, last'.sent)]
    /\ UNCHANGED <<dry_run, tools, call, pending, rest>>

\* one iteration for a frame that is neither TEXT nor ERROR: no branch is taken
RecvBinary(c) ==
    /\ ws[c] = "open"
    /\ recvd[c] < MaxFrames
    /\ recvd' = [recvd EXCEPT ![c] = @ + 1]
    /\ prev' = [prev EXCEPT ![c] = Shift(c)]
    /\ last' = Event("binary", c)
    /\ UNCHANGED <<dry_run, tools, ws, call, pending, outbox, rest>>

\* msg.type == WSMsgType.ERROR: break
RecvError(c) ==
    /\ ws[c] = "open"
    /\ ws' = [ws EXCEPT ![c] = "closed"]
    /\ prev' = [prev EXCEPT ![c] = Shift(c)]
    /\ last' = Event("error", c)
    /\ UNCHANGED <<dry_run, tools, recvd, call, pending, outbox, rest>>

\* the peer closes: the iteration over ws ends
RecvClose(c) ==
    /\ ws[c] = "open"
    /\ ws' = [ws EXCEPT ![c] = "closed"]
    /\ prev' = [prev EXCEPT ![c] = Shift(c)]
    /\ last' = Event("close", c)
    /\ UNCHANGED <<dry_run, tools, recvd, call, pending, outbox, rest>>

Next ==
    \E c \in Conns :
        \/ Connect(c)
        \/ RecvText(c)
        \/ RecvBinary(c)
        \/ RecvError(c)
        \/ RecvClose(c)

Spec == Init /\ [][Next]_vars

(***************************************************************************)
(* The message loop in two steps, for two connections served by the one   *)
(* MCPServer: the loop reads a frame (async for msg in ws) and later, when *)
(* the awaits of process_message and of send_str have completed, is back   *)
(* at the head of the loop.  While the handler of one connection is        *)
(* suspended the loops of the other connections run.                       *)
(***************************************************************************)
LoopConns == {"c1", "c2"}

HealthProbe == Call("health_check", [EmptyArgs EXCEPT !.service = "api"])

LoopFrames ==
    {Frame("malformed", Value("null", FALSE)),
     Frame("json", Object("2.0", "1", "initialize", EmptyParams)),
     Frame("json", Object("2.0", "1", "tools/list", NoParams)),
     Frame("json", Object("2.0", "1", "tools/call", Call("nope", NoArgs))),
     Frame("json", Object("2.0", "1", "tools/call", HealthProbe)),
     Frame("json", Object("2.0", Absent, "notifications/cancelled", NoParams)),
     Frame("json", Object("2.0", "2", "notifications/cancelled", NoParams))}

LoopWorlds(frame) ==
    IF frame.value.t = "object" /\ frame.value.params = HealthProbe
    THEN {First(ExitOk("200")), First(ExitFail), First(NeverExits)}
    ELSE {Quiet}

\* the frames read so far on the two connections
LoopReceived == recvd["c1"] + recvd["c2"]

InitLoop ==
    /\ dry_run \in BOOLEAN
    /\ tools = InitTools
    /\ ws = [c \in LoopConns |-> "idle"]
    /\ recvd = [c \in LoopConns |-> 0]
    /\ prev = [c \in LoopConns |-> "none"]
    /\ last = Event("init", "c1")
    /\ pending = [c \in LoopConns |-> NoPending]
    /\ outbox = [c \in LoopConns |-> <<>>]
    /\ rest = RestInit
    /\ call = NoCall

\* A plausible bug: the loop takes the next frame while the handler of the
\* frame before it is still suspended (one task per frame).
ReadText_pipelined(c) ==
    /\ ws[c] \in {"open", "handling"}
    /\ LoopReceived < MaxFrames
    /\ \E frame \in LoopFrames :
         \E world \in LoopWorlds(frame) :
            pending' = [pending EXCEPT ![c] = [n |-> recvd[c] + 1, frame |-> frame,
                                               world |-> world]]
    /\ ws' = [ws EXCEPT ![c] = "handling"]
    /\ recvd' = [recvd EXCEPT ![c] = @ + 1]
    /\ UNCHANGED <<dry_run, tools, prev, last, call, outbox, rest>>

\* async for msg in ws yields a TEXT frame: the body of the loop starts
ReadText(c) ==
    /\ ws[c] = "open"
    /\ LoopReceived < MaxFrames
    /\ \E frame \in LoopFrames :
         \E world \in LoopWorlds(frame) :
            pending' = [pending EXCEPT ![c] = [n |-> recvd[c] + 1, frame |-> frame,
                                               world |-> world]]
    /\ ws' = [ws EXCEPT ![c] = "handling"]
    /\ recvd' = [recvd EXCEPT ![c] = @ + 1]
    /\ UNCHANGED <<dry_run, tools, prev, last, call, outbox, rest>>

\* what the end of an iteration leaves of the loop and of its frame
Finished(c, h) ==
    /\ ws' = [ws EXCEPT ![c] = CASE h.loop = "continue" -> "open"
                                 [] h.loop = "blocked" -> "blocked"
                                 [] OTHER -> "closed"]
    /\ last' = [op |-> "text", conn |-> c, frame |-> pending[c].frame,
                world |-> pending[c].world, loop |-> h.loop, sent |-> h.sent,
                raised |-> h.raised, spawned |-> h.spawned, ran |-> h.ran,
                cls |-> Class(pending[c].frame, h)]
    /\ prev' = [prev EXCEPT ![c] = Shift(c)]
    /\ outbox' = [outbox EXCEPT ![c] = Written(@, pending[c].n, h.sent)]

\* A plausible bug: a cancellation notice aborts the calls in flight on the
\* other connections, which then never answer.
FinishText_cancelling(c) ==
    /\ ws[c] = "handling"
    /\ \E h \in {on_text(pending[c].frame, Env(pending[c].world))} :
         /\ Finished(c, h)
         /\ pending' = [d \in LoopConns |->
                          IF d = c /\ h.loop = "blocked" THEN pending[d]
                          ELSE IF d = c
                                  \/ pending[c].frame.value.method = "notifications/cancelled"
                          THEN NoPending
                          ELSE pending[d]]
    /\ UNCHANGED <<dry_run, tools, recvd, call, rest>>

\* A plausible bug: the handler takes the descriptor of the called tool out
\* of the registry (pop instead of a lookup).
FinishText_consuming(c) ==
    /\ ws[c] = "handling"
    /\ \E h \in {on_text(pending[c].frame, Env(pending[c].world))} :
         /\ Finished(c, h)
         /\ pending' = [pending EXCEPT ![c] = IF h.loop = "blocked" THEN @ ELSE NoPending]
    /\ tools' = [n \in DOMAIN tools \ {Get(pending[c].frame.value.params.name, PyNone)}
                    |-> tools[n]]
    /\ UNCHANGED <<dry_run, recvd, call, rest>>

\* process_message and send_str for the frame read: the rest of the iteration
FinishText(c) ==
    /\ ws[c] = "handling"
    /\ \E h \in {on_text(pending[c].frame, Env(pending[c].world))} :
         /\ Finished(c, h)
         /\ pending' = [pending EXCEPT ![c] = IF h.loop = "blocked" THEN @ ELSE NoPending]
    /\ UNCHANGED <<dry_run, tools, recvd, call, rest>>

NextLoop ==
    \E c \in LoopConns :
        \/ Connect(c)
        \/ ReadText(c)
        \/ FinishText(c)
        \/ RecvError(c)
        \/ RecvClose(c)

SpecLoop == InitLoop /\ [][NextLoop]_vars

(***************************************************************************)
(* The REST server: invocations of CLI tools, the listing and the reload.  *)
(* A request keeps the reference to the CLIHandler it was dispatched to    *)
(* (handler) for as long as it runs; registry is the content that handler  *)
(* had when the request was dispatched, at the number of reloads then.     *)
(***************************************************************************)
Dispatched_to(via, todo, first) ==
    [pc |-> IF first.known THEN "running" ELSE "done",
     via |-> via, handler |-> rest.cli, at |-> rest.reloads,
     registry |-> rest.heap[rest.cli],
     todo |-> todo, steps |-> <<first>>,
     result |-> IF first.known THEN "pending"
                ELSE IF via = "cli" THEN "unknown_tool" ELSE "raised"]

\* POST /cli/{tool}: self.cli.execute(tool, params) up to the await of the
\* executor
handle_cli(r) ==
    /\ rest.reqs[r].pc # "running"
    /\ \E tool \in {"curl", "jq", "nope"} :
         rest' = [rest EXCEPT !.reqs[r] =
                    Dispatched_to("cli", <<>>, cli_execute(rest.heap[rest.cli], tool))]
    /\ UNCHANGED <<dry_run, tools, ws, recvd, prev, last, call, pending, outbox>>

\* POST /cli/chain: self.cli.chain_commands(commands) up to the first await
\* of the executor; a step for an unknown tool has no stderr, the error
\* message of the chain raises KeyError
handle_cli_chain(r) ==
    /\ rest.reqs[r].pc # "running"
    /\ \E commands \in {<<"jq", "curl">>, <<"curl", "jq">>,
                       <<"grep", "nope">>, <<"nope", "jq">>} :
         rest' = [rest EXCEPT !.reqs[r] =
                    Dispatched_to("chain", Tail(commands),
                                  cli_execute(rest.heap[rest.cli], Head(commands)))]
    /\ UNCHANGED <<dry_run, tools, ws, recvd, prev, last, call, pending, outbox>>

\* the request after the command of its step has ended
Resumed(q, ok, next) ==
    IF ~ok THEN [q EXCEPT !.pc = "done", !.result = "failed"]
    ELSE IF q.todo = <<>> THEN [q EXCEPT !.pc = "done", !.result = "success"]
    ELSE [q EXCEPT !.pc = IF next.known THEN "running" ELSE "done",
                   !.todo = Tail(q.todo),
                   !.steps = Append(q.steps, next),
                   !.result = IF next.known THEN "pending" ELSE "raised"]

\* the executor returns to the suspended request: execute returns the
\* result, and a chain goes on to self.execute for its next command
ExecutorReturns(r) ==
    /\ rest.reqs[r].pc = "running"
    /\ \E ok \in BOOLEAN :
         rest' = [rest EXCEPT !.reqs[r] =
                    Resumed(@, ok,
                            cli_execute(rest.heap[@.handler],
                                        IF @.todo = <<>> THEN "none" ELSE Head(@.todo)))]
    /\ UNCHANGED <<dry_run, tools, ws, recvd, prev, last, call, pending, outbox>>

\* GET /cli/tools
handle_cli_tools ==
    /\ rest' = [rest EXCEPT !.listed = [at |-> rest.reloads,
                                        active_tools |-> DOMAIN rest.heap[rest.cli]]]
    /\ UNCHANGED <<dry_run, tools, ws, recvd, prev, last, call, pending, outbox>>

\* A plausible bug: the reload rebuilds the registry of the handler in use
\* (self.cli.config = ...; self.cli.tools = self.cli._build_active_tools()).
Reloaded_inplace(file) ==
    IF file.t = "null"
    THEN [rest EXCEPT !.config = file, !.reloads = @ + 1, !.status = 500]
    ELSE [rest EXCEPT !.config = file, !.reloads = @ + 1, !.status = 200,
                      !.heap[rest.cli] = _build_active_tools(file)]

\* the body of handle_config_reload: self.config is assigned, then a new
\* CLIHandler is constructed and assigned to self.cli; with no tools mapping
\* the constructor raises and the answer is status 500
Reloaded(file) ==
    IF file.t = "null"
    THEN [rest EXCEPT !.config = file, !.reloads = @ + 1, !.status = 500]
    ELSE [rest EXCEPT !.config = file, !.reloads = @ + 1, !.status = 200,
                      !.heap = Append(@, _build_active_tools(file)),
                      !.cli = Len(rest.heap) + 1]

\* POST /config/reload, with the configuration found at that moment
handle_config_reload ==
    /\ rest.reloads < MaxReloads
    /\ \E file \in ConfigFiles : rest' = Reloaded(file)
    /\ UNCHANGED <<dry_run, tools, ws, recvd, prev, last, call, pending, outbox>>

InitReload ==
    /\ dry_run = FALSE
    /\ Idle
    /\ call = NoCall

NextReload ==
    \/ \E r \in RestReqs : handle_cli(r) \/ handle_cli_chain(r) \/ ExecutorReturns(r)
    \/ handle_cli_tools
    \/ handle_config_reload

SpecReload == InitReload /\ [][NextReload]_vars

(***************************************************************************)
(* CLIHandler._handle_sops in two steps: up to the await of the sops       *)
(* process (SopsStart), and from the end of the process to the return      *)
(* (SopsFinish).  Invocations of different requests overlap while their    *)
(* processes run; the files are those of the one /tmp of the server.       *)
(***************************************************************************)
SopsParams ==
    {[age_key |-> k, operation |-> o, source |-> src] :
        k \in {Absent, "given"}, o \in {"encrypt", "decrypt", "zap"},
        src \in {"file", "data"}}

\* the inline data goes to the temp file only for encrypt
WritesInput(q) == q.source = "data" /\ q.operation = "encrypt"

\* inline decryption starts the process itself, with the data on stdin
PipesData(q) == q.source = "data" /\ q.operation = "decrypt"

\* the files after the tail of _handle_sops: os.unlink(temp_file) after a
\* successful encryption of inline data, and the finally block, which
\* removes the key file if there is one
Cleaned(files, q, success) ==
    [age_key_file |-> Absent,
     temp_file |-> IF WritesInput(q) /\ success THEN Absent ELSE files.temp_file]

\* the result of an invocation that returns: os.unlink(temp_file) raises
\* when the file is gone, and the except branch reports the failure
Returned(files, q, key, piped, success) ==
    [pc |-> "done", age_key |-> key, operation |-> q.operation, source |-> q.source,
     piped |-> piped,
     success |-> success /\ ~(WritesInput(q) /\ files.temp_file = Absent)]

\* the start of an invocation: the checks of the key and of the operation,
\* the key file and the temp file are written, and the sops process is
\* started (starts); a dry run and a process that cannot be started return
\* at once
SopsStart(i) ==
    /\ rest.sops[i].pc = "idle"
    /\ \E q \in SopsParams, starts \in BOOLEAN :
         IF q.age_key = Absent \/ q.operation = "zap"
         THEN rest' = [rest EXCEPT !.sops[i] = Returned(rest.files, q, Absent, FALSE, FALSE)]
         ELSE \E written \in {[age_key_file |-> KeyOf(i),
                               temp_file |-> IF WritesInput(q) THEN "plaintext of " \o i
                                             ELSE rest.files.temp_file]} :
                IF dry_run /\ ~PipesData(q)
                THEN rest' = [rest EXCEPT
                                !.files = Cleaned(written, q, TRUE),
                                !.sops[i] = Returned(written, q, KeyOf(i), FALSE, TRUE)]
                ELSE IF ~starts
                THEN rest' = [rest EXCEPT
                                !.files = Cleaned(written, q, FALSE),
                                !.sops[i] = Returned(written, q, KeyOf(i), PipesData(q), FALSE)]
                ELSE rest' = [rest EXCEPT
                                !.files = written,
                                !.sops[i] = [pc |-> "running", age_key |-> KeyOf(i),
                                             operation |-> q.operation,
                                             source |-> q.source,
                                             piped |-> PipesData(q), success |-> FALSE]]
    /\ UNCHANGED <<dry_run, tools, ws, recvd, prev, last, call, pending, outbox>>

\* the sops process ends, with exit code 0 or not (or the executor gives up
\* waiting): the result is built and the files are cleaned up
SopsFinish(i) ==
    /\ rest.sops[i].pc = "running"
    /\ \E ok \in BOOLEAN :
         rest' = [rest EXCEPT
                    !.files = Cleaned(@, rest.sops[i], ok),
                    !.sops[i] = Returned(rest.files, rest.sops[i], rest.sops[i].age_key,
                                         rest.sops[i].piped, ok)]
    /\ UNCHANGED <<dry_run, tools, ws, recvd, prev, last, call, pending, outbox>>

InitSops ==
    /\ dry_run \in BOOLEAN
    /\ Idle
    /\ call = NoCall

NextSops == \E i \in SopsCalls : SopsStart(i) \/ SopsFinish(i)

SpecSops == InitSops /\ [][NextSops]_vars

(***************************************************************************)
(* MCPMessage.create_response and CommandExecutor.execute called directly, *)
(* on arguments drawn from bounded sets: call holds the arguments and,     *)
(* once the call has returned or raised, its outcome.                      *)
(***************************************************************************)
SomeResults ==
    {NoValue,
     [tools |-> {}],
     [protocolVersion |-> "2024-11-05"],
     [content |-> <<[type |-> "text", text |-> json_dumps([status |-> "healthy"])]>>],
     [resources |-> {}]}

SomeErrors ==
    {NoValue, Err(-32700, "Parse error"), Err(-32600, "Invalid Request"),
     Err(-32601, "Method not found: x"), Err(-32603, "Internal error: x")}

InitCreate ==
    /\ dry_run = FALSE
    /\ Idle
    /\ call \in {[fn |-> "create_response", done |-> FALSE, request_id |-> i,
                  result |-> r, error |-> e, out |-> NoValue] :
                    i \in {"0", "1", "2", PyNone}, r \in SomeResults, e \in SomeErrors}

CallCreateResponse ==
    /\ call.fn = "create_response"
    /\ ~call.done
    /\ call' = [call EXCEPT !.done = TRUE,
                            !.out = create_response(call.request_id, call.result, call.error)]
    /\ UNCHANGED <<dry_run, tools, ws, recvd, prev, last, pending, outbox, rest>>

SpecCreate == InitCreate /\ [][CallCreateResponse]_vars

\* a POST to /mcp/http: the bodies are the texts of the frames
InitHttp ==
    /\ dry_run \in BOOLEAN
    /\ Idle
    /\ call = NoCall

HttpPost ==
    /\ call = NoCall
    /\ \E body \in TextFrames :
         \E world \in WorldsFor(body) :
            call' = [fn |-> "handle_http_mcp", body |-> body, world |-> world,
                     out |-> handle_http_mcp(body, Env(world))]
    /\ UNCHANGED <<dry_run, tools, ws, recvd, prev, last, pending, outbox, rest>>

SpecHttp == InitHttp /\ [][HttpPost]_vars

\* argv lists as the tool handlers build them, and the degenerate ones
SomeCommands ==
    {<<"kubectl", "get", "-n", "default", "pods", "-o", "json">>,
     <<"kubectl", "get", "-n", "default", PyNone, "-o", "json">>,
     <<"git", "commit", "-m", NonStr>>,
     <<"jq">>,
     <<PyNone>>,
     <<>>}

\* a process ended by SIGKILL: returncode is minus the signal number
Killed == Proc("exit", -9, "", "", TRUE)

AllProcs == ProcOutcomes \cup {ExitOk("200"), ExitOk(""), Killed}

InitExecute ==
    /\ dry_run \in BOOLEAN
    /\ Idle
    /\ call \in {[fn |-> "execute", done |-> FALSE, command |-> cmd, cwd |-> d,
                  timeout |-> t, proc |-> p, out |-> Ret(NoValue, 0, {}),
                  child |-> "none"] :
                    cmd \in SomeCommands, d \in {PyNone, RepoPath, NonStr},
                    t \in {0, 5}, p \in AllProcs}

CallExecute ==
    /\ call.fn = "execute"
    /\ ~call.done
    /\ call' = [call EXCEPT !.done = TRUE,
                            !.out = execute(call.command, call.cwd, call.timeout,
                                            dry_run, call.proc),
                            !.child = execute_child(call.command, call.cwd,
                                                    call.timeout, dry_run, call.proc)]
    /\ UNCHANGED <<dry_run, tools, ws, recvd, prev, last, pending, outbox, rest>>

SpecExecute == InitExecute /\ [][CallExecute]_vars

(***************************************************************************)
(* The REST server called one request at a time: the executor and the      *)
(* handlers of mcp_server.py as functions of the request, of dry_run and   *)
(* of the outcomes of the processes the request may start, in the order    *)
(* in which it starts them.                                                *)
(***************************************************************************)

\* CommandExecutor.execute of mcp_server.py for a command of strings
executor_execute(command, dry, proc) ==
    IF dry
    THEN Ret(ExecResult(TRUE, "DRY RUN: " \o Join(command), "", 0, "0"), 0, {})
    ELSE IF proc.kind = "spawnfail"
    THEN Ret(ExecResult(FALSE, "", "OSError", -1, "elapsed"), 0, {})
    ELSE IF proc.kind \in {"timeout", "never"}
    THEN Ret(ExecResult(FALSE, "",
                        "Command timed out after " \o ToString(DefaultTimeout) \o " seconds",
                        -1, "timeout"), 1, {})
    ELSE IF ~proc.utf8
    THEN Ret(ExecResult(FALSE, "", "UnicodeDecodeError", -1, "elapsed"), 1, {})
    ELSE Ret(ExecResult(proc.rc = 0, proc.stdout, proc.stderr, proc.rc, "elapsed"), 1, {})

\* create_subprocess_exec with stdin=PIPE and communicate(input=...), inside
\* try/except Exception and with no timeout; n processes were started before
Piped(proc, n) ==
    IF proc.kind = "spawnfail"
    THEN Ret(ExecResult(FALSE, "", "OSError", -1, "0"), n, {})
    ELSE IF proc.kind = "never" THEN Hang(n + 1, {})
    ELSE IF ~proc.utf8
    THEN Ret(ExecResult(FALSE, "", "UnicodeDecodeError", -1, "0"), n + 1, {})
    ELSE Ret(ExecResult(proc.rc = 0, proc.stdout, proc.stderr, proc.rc, "0"), n + 1, {})

CliParams(args, input) == [args |-> args, input |-> input]

\* the rest of CLIHandler.execute after the lookup: self.executor.execute and,
\* when input is given, a second process with the input on its stdin, whose
\* result replaces the first
Executed_then_piped(first, params, procs) ==
    IF first.exc \/ ~Truthy(params.input) THEN first
    ELSE Piped(procs[2], first.spawned)

\* CLIHandler.execute on the handler built from config, for a tool that is
\* not sops (_handle_sops is SopsStart and SopsFinish)
CLIHandler_execute(config, tool, params, dry, procs) ==
    LET self_tools == _build_active_tools(config)
        found == cli_execute(self_tools, tool)
    IN  IF ~found.known
        THEN Ret([success |-> FALSE, error |-> "Unknown CLI tool: " \o tool], 0, {})
        ELSE Executed_then_piped(
                executor_execute(<<found.cmd>> \o ArgList(params.args), dry, procs[1]),
                params, procs)

ChainCommand(tool, args) == [tool |-> tool, args |-> args]

\* chain_commands after the command in place i has returned r; results and n
\* are the results and the processes of the commands before it
RECURSIVE chain_from(_, _, _, _, _, _, _, _)
chain_after(r, config, commands, i, results, n, dry, procs) ==
    IF r.hang THEN Hang(n + r.spawned, {})
    ELSE IF r.exc THEN Raise(r.err, n + r.spawned, {})
    ELSE IF ~r.val.success
    THEN IF "stderr" \in DOMAIN r.val
         THEN Ret([success |-> FALSE,
                   error |-> "Command " \o ToString(i - 1) \o " failed: " \o r.val.stderr,
                   results |-> Append(results, r.val)], n + r.spawned, {})
         ELSE \* result["stderr"] of the result for an unknown tool
              Raise("KeyError", n + r.spawned, {})
    ELSE chain_from(config, commands, i + 1, r.val.stdout, Append(results, r.val),
                    n + r.spawned, dry, procs)

\* the loop of chain_commands from the command in place i on
chain_from(config, commands, i, input_data, results, n, dry, procs) ==
    IF i > Len(commands)
    THEN Ret([success |-> TRUE, results |-> results, final_output |-> input_data], n, {})
    ELSE IF ~Truthy(commands[i].tool)
    THEN Ret([success |-> FALSE,
              error |-> "Command " \o ToString(i - 1) \o ": tool not specified"], n, {})
    ELSE chain_after(
            CLIHandler_execute(config, commands[i].tool,
                               CliParams(commands[i].args,
                                         IF Truthy(input_data) THEN input_data ELSE Absent),
                               dry, [k \in 1..2 |-> procs[2 * (i - 1) + k]]),
            config, commands, i, results, n, dry, procs)

chain_commands(config, commands, dry, procs) ==
    IF commands = <<>>
    THEN Ret([success |-> FALSE, error |-> "No commands provided"], 0, {})
    ELSE chain_from(config, commands, 1, PyNone, <<>>, 0, dry, procs)

\* web.json_response, or the 500 of aiohttp for a handler that raised
JsonResponse(status, body, n) == [status |-> status, body |-> body, spawned |-> n, hang |-> FALSE]

Answered(r, body) ==
    IF r.hang THEN [status |-> 0, body |-> NoValue, spawned |-> r.spawned, hang |-> TRUE]
    ELSE IF r.exc THEN JsonResponse(500, NoValue, r.spawned)
    ELSE JsonResponse(200, body, r.spawned)

KubectlParams(t, resource, output) == [t |-> t, resource |-> resource, output |-> output]

\* KubectlHandler.execute after the command has returned r
kubectl_result(r, params) ==
    Ret([success |-> r.val.success, stdout |-> r.val.stdout, stderr |-> r.val.stderr,
         exitcode |-> r.val.exitcode, duration |-> r.val.duration,
         data |-> IF params.output = "json" /\ r.val.success /\ IsJsonText(r.val.stdout)
                  THEN json_dumps(r.val.stdout) ELSE r.val.stdout],
        r.spawned, {})

\* KubectlHandler.execute with no KUBE_CONTEXT and the namespace default
kubectl_execute(action, params, dry, proc) ==
    kubectl_result(
        executor_execute(<<"kubectl", action>>
                         \o (IF params.resource = Absent THEN <<>> ELSE <<params.resource>>)
                         \o <<"-n", "default">>
                         \o (IF params.output = Absent THEN <<>> ELSE <<"-o", params.output>>),
                         dry, proc),
        params)

kubectl_answer(r, action) ==
    JsonResponse(200, [command |-> "kubectl", action |-> action, result |-> r.val], r.spawned)

\* POST /kubectl/{action}; a body that is no JSON object makes the handler raise
handle_kubectl(action, params, dry, proc) ==
    IF params.t # "object" THEN JsonResponse(500, NoValue, 0)
    ELSE kubectl_answer(kubectl_execute(action, params, dry, proc), action)

prometheus_answer(r) ==
    IF r.val.success
    THEN IF IsJsonText(r.val.stdout)
         THEN JsonResponse(200, json_dumps(r.val.stdout), r.spawned)
         ELSE JsonResponse(500, [error |-> "Invalid response from Prometheus"], r.spawned)
    ELSE JsonResponse(500, [error |-> r.val.stderr], r.spawned)

\* GET /prometheus/query
handle_prometheus_query(query, dry, proc) ==
    IF ~Truthy(query) THEN JsonResponse(400, [error |-> "Query parameter required"], 0)
    ELSE prometheus_answer(
            executor_execute(<<"curl", "-s", "http://prometheus:9090/api/v1/query", "-d",
                               "query=" \o query>>, dry, proc))

ready_answer(r) ==
    IF r.val.success THEN JsonResponse(200, [status |-> "ready"], r.spawned)
    ELSE JsonResponse(503, [status |-> "not ready", error |-> r.val.stderr], r.spawned)

\* GET /ready
handle_ready(dry, proc) ==
    ready_answer(executor_execute(<<"kubectl", "version", "--client">>, dry, proc))

\* the outcomes of the (at most four) processes of a request: all end well,
\* or one of them does not
RestWorlds ==
    {[k \in 1..4 |-> ExitOk("out\n")]}
    \cup {[k \in 1..4 |-> IF k = j THEN p ELSE ExitOk("out\n")] :
            j \in 1..4, p \in {ExitFail, SpawnFails, TimesOut, ExitUndecodable,
                               ExitOk("{}"), ExitOk("")}}

\* tool configurations, one of them with jq both disabled and enabled
RestConfigs ==
    {DefaultConfig,
     ToolConfig({"all"}, {"curl"}, {}),
     ToolConfig({"text"}, {}, {"jq"}),
     ToolConfig({"network"}, {"jq"}, {"jq"}),
     ToolConfig({}, {}, {})}

RestRequests ==
    {[endpoint |-> "kubectl", action |-> "get", params |-> q] :
        q \in {KubectlParams("malformed", Absent, Absent),
               KubectlParams("object", "pods", Absent),
               KubectlParams("object", "pods", "json")}}
    \cup {[endpoint |-> "prometheus", query |-> q] : q \in {Absent, "up"}}
    \cup {[endpoint |-> "ready"]}
    \cup {[endpoint |-> "cli", config |-> c, tool |-> t, params |-> q] :
            c \in RestConfigs, t \in {"curl", "grep", "jq", "nope"},
            q \in {CliParams(Absent, Absent), CliParams("strs", "data")}}
    \cup {[endpoint |-> "chain", config |-> DefaultConfig, commands |-> cs] :
            cs \in {<<>>,
                    <<ChainCommand(Absent, Absent)>>,
                    <<ChainCommand("nope", Absent)>>,
                    <<ChainCommand("curl", "strs"), ChainCommand("jq", Absent)>>,
                    <<ChainCommand("grep", Absent), ChainCommand("nope", Absent)>>}}

\* the processes that can make a difference to a request
RestWorldsFor(req) ==
    CASE req.endpoint \in {"kubectl", "prometheus", "ready"} ->
            {w \in RestWorlds : \A k \in 2..4 : w[k] = ExitOk("out\n")}
      [] req.endpoint = "cli" ->
            {w \in RestWorlds : \A k \in 3..4 : w[k] = ExitOk("out\n")}
      [] OTHER -> RestWorlds

InitRest ==
    /\ dry_run \in BOOLEAN
    /\ Idle
    /\ call \in {[fn |-> "rest", done |-> FALSE, req |-> req, procs |-> w,
                  out |-> JsonResponse(0, NoValue, 0)] :
                    req \in RestRequests, w \in RestWorlds}
    /\ call.procs \in RestWorldsFor(call.req)

\* handle_cli and handle_cli_chain around the outcome r of the CLIHandler
cli_answer(r, command) == Answered(r, [command |-> command, result |-> r.val])

\* the handler of the endpoint of the request
Serve(req, dry, procs) ==
    CASE req.endpoint = "kubectl" -> handle_kubectl(req.action, req.params, dry, procs[1])
      [] req.endpoint = "prometheus" -> handle_prometheus_query(req.query, dry, procs[1])
      [] req.endpoint = "ready" -> handle_ready(dry, procs[1])
      [] req.endpoint = "cli" ->
            cli_answer(CLIHandler_execute(req.config, req.tool, req.params, dry, procs),
                       "cli")
      [] OTHER ->
            cli_answer(chain_commands(req.config, req.commands, dry, procs), "cli-chain")

ServeRequest ==
    /\ call.fn = "rest"
    /\ ~call.done
    /\ call' = [call EXCEPT !.done = TRUE, !.out = Serve(call.req, dry_run, call.procs)]
    /\ UNCHANGED <<dry_run, tools, ws, recvd, prev, last, pending, outbox, rest>>

SpecRest == InitRest /\ [][ServeRequest]_vars

(***************************************************************************)
(* Properties.  They speak of the frame handled last: Msg is the value     *)
(* json.loads returned for it, Reply the response written back for it.     *)
(***************************************************************************)
IsText == last.op = "text"
Msg == last.frame.value
Parsed == last.frame.kind # "malformed"
IsObject == Parsed /\ Msg.t = "object"

\* the envelope is valid: the tag is "2.0" and method or id is present
EnvelopeValid ==
    IsObject /\ Msg.jsonrpc = "2.0" /\ (Msg.method # Absent \/ Msg.id # Absent)

Replied == Len(last.sent) = 1
Reply == last.sent[1]
IsErrorReply(code) ==
    Replied /\ "error" \in DOMAIN Reply /\ "result" \notin DOMAIN Reply
            /\ Reply.error.code = code

\* a handler (the try block of process_message) raised for the last frame
HandlerRaised ==
    Route(Get(Msg.method, PyNone), Get(Msg.id, PyNone), Msg.params, Env(last.world)).exc

\* C1: an exception raised while an envelope-valid message is handled never
\* leaves process_message: it comes back as an error response with code
\* -32603 and the id of the message.
C1_FaultBecomesInternalError ==
    (IsText /\ EnvelopeValid) =>
        /\ ~last.raised
        /\ HandlerRaised => (IsErrorReply(-32603) /\ Reply.id = Get(Msg.id, PyNone))

C1_Witness ==
    /\ IsText /\ EnvelopeValid /\ HandlerRaised
    /\ Msg.method = "tools/call" /\ last.spawned = 1
    /\ IsErrorReply(-32603) /\ Reply.id = "1"

\* C2: no text frame closes the socket or ends the message loop, and the
\* reply to a frame is the one a fresh connection gives to it as its first
\* frame, whatever frames came before.  (The loop is not ready for the next
\* frame only while a handler still waits for a child process.)
C2_LoopSurvivesBadFrames ==
    IsText =>
        /\ ws[last.conn] # "closed"
        /\ (last.loop # "blocked") => ws[last.conn] = "open"
        /\ last.sent = on_text(last.frame,
                               [Env(last.world) EXCEPT !.tools = InitTools]).sent

C2_Witness ==
    /\ IsText /\ recvd[last.conn] >= 2
    /\ prev[last.conn] \in {"parse_error", "dropped", "error", "unknown_tool"}
    /\ EnvelopeValid /\ Msg.id = "1" /\ Msg.method = "tools/list"
    /\ Replied /\ "result" \in DOMAIN Reply
    /\ ws[last.conn] = "open"

\* the last frame is a tools/call naming a tool that is not registered
UnknownToolCall ==
    /\ EnvelopeValid
    /\ Msg.method = "tools/call"
    /\ Msg.params.t # "nonobject"
    /\ Get(Msg.params.name, PyNone) \notin DOMAIN tools

FullToolList == {InitTools[n] : n \in DOMAIN InitTools}

\* C3: a tools/call for an unregistered tool is answered with an error
\* response, raises nothing into the loop and starts no process; a tools/list
\* request that follows it on the connection is answered with the full list.
C3_UnknownToolIsAnError ==
    /\ (IsText /\ UnknownToolCall) =>
          /\ ~last.raised /\ last.spawned = 0 /\ ws[last.conn] = "open"
          /\ Replied /\ "error" \in DOMAIN Reply /\ "result" \notin DOMAIN Reply
    /\ (IsText /\ prev[last.conn] = "unknown_tool" /\ EnvelopeValid
               /\ Msg.method = "tools/list" /\ Msg.id # Absent) =>
          /\ Replied /\ "result" \in DOMAIN Reply
          /\ Reply.result.tools = FullToolList
          /\ Reply.id = Msg.id

C3_Witness ==
    /\ IsText /\ prev[last.conn] = "unknown_tool"
    /\ EnvelopeValid /\ Msg.method = "tools/list" /\ Msg.id = "2"
    /\ Replied /\ Reply.result.tools = FullToolList

\* C4: a response to a message that has an id carries that id, be it a
\* success, an invalid-request, a method-not-found or an internal error.
C4_ResponseEchoesId ==
    (IsText /\ IsObject /\ Msg.id # Absent /\ Replied) => Reply.id = Msg.id

C4_Witness ==
    /\ IsText /\ IsObject /\ Msg.id = "1" /\ ~EnvelopeValid
    /\ IsErrorReply(-32600) /\ Reply.id = "1"

\* C5: a notification (a method and no id) is never answered.
C5_NotificationNeverAnswered ==
    (IsText /\ EnvelopeValid /\ Msg.id = Absent /\ Msg.method # Absent) =>
        last.sent = <<>>

\* C6: a response built by create_response has exactly one of the keys
\* result and error, whatever result and error are passed.
C6_ExactlyOneOfResultAndError ==
    (call.fn = "create_response" /\ call.done) =>
        /\ ("result" \in DOMAIN call.out) # ("error" \in DOMAIN call.out)
        /\ DOMAIN call.out \subseteq {"jsonrpc", "id", "result", "error"}

C6_Witness ==
    /\ call.fn = "create_response" /\ call.done
    /\ call.result # NoValue /\ call.error # NoValue
    /\ DOMAIN call.out = {"jsonrpc", "id", "error"}

\* C7: every frame whose text is not valid JSON is answered with exactly one
\* response with code -32700, and the connection stays open.
C7_InvalidJsonGetsParseError ==
    (IsText /\ last.frame.kind \in {"malformed", "nonstd"}) =>
        /\ IsErrorReply(-32700)
        /\ ws[last.conn] = "open"

\* C8: a request whose method is not in the routing table is answered with
\* code -32601 and its own id; no handler runs and no process is started.
C8_UnroutedMethodNotFound ==
    (IsText /\ EnvelopeValid /\ Msg.id # Absent
            /\ Get(Msg.method, PyNone) \notin Routed) =>
        /\ IsErrorReply(-32601)
        /\ Reply.id = Msg.id
        /\ last.ran = {}
        /\ last.spawned = 0

C8_Witness ==
    /\ IsText /\ EnvelopeValid /\ Msg.id = "2" /\ Msg.method = "bogus/method"
    /\ IsErrorReply(-32601) /\ Reply.id = "2"

\* C9: every payload that is valid JSON but no valid envelope (an object or
\* any other JSON value) is answered with code -32600 and no handler runs.
C9_EnvelopeCheckedFirst ==
    (IsText /\ last.frame.kind = "json" /\ ~EnvelopeValid) =>
        /\ IsErrorReply(-32600)
        /\ last.ran = {}

\* C10: execute never raises; a spawn failure (an executable that cannot be
\* started, an argv element that is no string) comes back as a result with
\* success false, exitcode -1 and a diagnostic in stderr.
C10_ExecuteNeverRaises ==
    (call.fn = "execute" /\ call.done) =>
        /\ ~call.out.exc
        /\ (~dry_run /\ (call.proc.kind = "spawnfail" \/ ~AllStr(call.command))) =>
              /\ call.out.val.success = FALSE
              /\ call.out.val.exitcode = -1
              /\ call.out.val.stderr # ""

\* the call of execute has returned a result
Executed == call.fn = "execute" /\ call.done /\ ~call.out.exc

\* a process was started and had not exited when the timeout was over
TimedOut ==
    /\ ~dry_run /\ AllStr(call.command) /\ call.command # <<>> /\ call.cwd # NonStr
    /\ call.proc.kind \in {"timeout", "never"}

\* no process could be started
SpawnFailed ==
    /\ ~dry_run
    /\ \/ ~AllStr(call.command) \/ call.command = <<>> \/ call.cwd = NonStr
       \/ call.proc.kind = "spawnfail"

\* C11: in every result of execute success is true exactly when exitcode is 0,
\* and a timeout or a spawn failure gives success false and exitcode -1.
C11_SuccessIffExitZero ==
    Executed =>
        /\ call.out.val.success <=> (call.out.val.exitcode = 0)
        /\ (TimedOut \/ SpawnFailed) =>
              (call.out.val.success = FALSE /\ call.out.val.exitcode = -1)

C11_Witness ==
    /\ Executed /\ ~dry_run /\ call.proc.kind = "exit" /\ call.proc.rc = 1
    /\ call.out.spawned = 1
    /\ call.out.val.success = FALSE /\ call.out.val.exitcode = 1

\* C12: with dry-run on, execute returns success true, exitcode 0, duration 0
\* and the echo of the argv for any command, and starts no process.
C12_DryRunFabricates ==
    (call.fn = "execute" /\ call.done /\ dry_run) =>
        /\ ~call.out.exc
        /\ call.out.val = [success |-> TRUE, stdout |-> "DRY RUN: " \o Join(call.command),
                           stderr |-> "", exitcode |-> 0, duration |-> "0"]
        /\ call.out.spawned = 0
        /\ call.child = "none"

\* C14: when the process has not exited after the effective timeout (that of
\* the call, else the configured default), execute returns success false,
\* exitcode -1, an empty stdout and the stderr "Command timed out after
\* <timeout> seconds".
C14_TimeoutResult ==
    (call.fn = "execute" /\ call.done /\ TimedOut) =>
        /\ ~call.out.exc
        /\ call.out.val.success = FALSE
        /\ call.out.val.exitcode = -1
        /\ call.out.val.stdout = ""
        /\ call.out.val.stderr =
              "Command timed out after "
              \o ToString(IF call.timeout = 0 THEN DefaultTimeout ELSE call.timeout)
              \o " seconds"

C14_Witness ==
    /\ call.fn = "execute" /\ call.done /\ TimedOut /\ call.timeout = 5
    /\ call.proc.kind = "never"
    /\ call.out.val.stderr = "Command timed out after 5 seconds"

\* C15: once execute has returned because of a timeout, the process it
\* started is no longer running.
C15_NoProcessOutlivesTimeout ==
    (call.fn = "execute" /\ call.done /\ TimedOut) => call.child # "running"

\* the last frame is a request that calls a registered tool
ToolCall ==
    /\ IsText /\ EnvelopeValid /\ Msg.id # Absent
    /\ Msg.method = "tools/call"
    /\ Msg.params.t # "nonobject"
    /\ Get(Msg.params.name, PyNone) \in DOMAIN tools

Args == Msg.params.arguments

\* the tool result that the reply carries as the text of its content
Content == Reply.result.content[1].text.json

\* C13: with dry-run on, no tools/call (whatever the tool and the arguments,
\* cli_tool with piped input included) starts an OS process.
C13_DryRunSpawnsNothing ==
    (IsText /\ dry_run) => last.spawned = 0

\* C16: every tools/call request is answered, even when the child process
\* never exits, cli_tool with piped input included.
C16_ToolCallAlwaysAnswered ==
    ToolCall => (last.loop # "blocked" /\ Replied)

\* the tools that return the result of one command as it is
OneCommandTools ==
    {"kubectl_get", "kubectl_describe", "kubectl_logs", "flux_status", "git_status",
     "cli_tool"}

\* the first process of the call exits non-zero, times out or cannot be
\* started (for a spawn failure: the call is a cli_tool call with a usable
\* argv that does start a process)
SubprocessFailed ==
    \/ /\ last.spawned >= 1
       /\ last.world.procs[1] = ExitFail
    \/ /\ last.spawned >= 1
       /\ last.world.procs[1] = TimesOut
       /\ ~(Msg.params.name = "cli_tool" /\ Truthy(Args.input))   \* no timeout there
    \/ /\ last.world.procs[1] = SpawnFails
       /\ Msg.params.name = "cli_tool"
       /\ Args.t = "object" /\ Args.tool = "jq" /\ Args.args \in {Absent, "strs"}
       /\ Args.input # NonStr
       /\ (~dry_run \/ Truthy(Args.input))

\* C17: a call of a registered tool whose subprocess exits non-zero, times out
\* or cannot be started is answered with a result, never with an error
\* object, and the result of a one-command tool says success false; on the
\* piped and on the other path of cli_tool.
C17_ExecutionErrorIsData ==
    (ToolCall /\ SubprocessFailed) =>
        /\ Replied /\ "result" \in DOMAIN Reply /\ "error" \notin DOMAIN Reply
        /\ (Msg.params.name \in OneCommandTools) => Content.success = FALSE

\* the value of the argument named f
ArgField(a, f) ==
    CASE f = "resource" -> a.resource
      [] f = "name" -> a.name
      [] f = "pod" -> a.pod
      [] f = "tool" -> a.tool
      [] f = "message" -> a.message
      [] OTHER -> Absent

\* the arguments of the call lack a field the tool's schema requires
MissingRequired ==
    /\ ToolCall /\ Args.t # "nonobject"
    /\ \E f \in tools[Msg.params.name].required : ArgField(Args, f) = Absent

\* C18: a tools/call whose arguments lack a required field is answered with
\* an error response and no command is run.  (The texts of the model do not
\* show whether the error names the field.)
C18_MissingRequiredRejected ==
    MissingRequired =>
        /\ Replied /\ "error" \in DOMAIN Reply /\ "result" \notin DOMAIN Reply
        /\ last.spawned = 0

AllResources == {resources[k] : k \in DOMAIN resources}

\* C19: tools/list, tools/call, resources/list and resources/read are served
\* whether or not an initialize request was answered before on the
\* connection: a request for the list of tools or of resources, for a known
\* resource or for the health of the server gets its result as the first
\* frame of a connection, after an initialize and after any other frame.
C19_NoInitializeNeeded ==
    (IsText /\ EnvelopeValid /\ Msg.id # Absent /\ Msg.params.t # "nonobject") =>
        /\ Msg.method = "tools/list" =>
              (Replied /\ "result" \in DOMAIN Reply /\ Reply.result.tools = FullToolList)
        /\ Msg.method = "resources/list" =>
              (Replied /\ "result" \in DOMAIN Reply
                       /\ Reply.result.resources = AllResources)
        /\ (Msg.method = "resources/read"
               /\ Msg.params.uri \in {r.uri : r \in AllResources}) =>
              (Replied /\ "result" \in DOMAIN Reply
                       /\ Reply.result.contents[1].uri = Msg.params.uri)
        /\ (Msg.method = "tools/call" /\ Msg.params.name = "health_check"
               /\ Args.t # "nonobject" /\ ~Truthy(Args.service)) =>
              (Replied /\ "result" \in DOMAIN Reply /\ Content.status = "healthy")

C19_Witness ==
    /\ IsText /\ recvd[last.conn] = 1 /\ prev[last.conn] = "none"
    /\ EnvelopeValid /\ Msg.id = "1" /\ Msg.method = "tools/call"
    /\ Msg.params.name = "health_check" /\ ~Truthy(Args.service)
    /\ Replied /\ Content.status = "healthy"

\* what the server keeps from one message to the next: the configuration of
\* the executor, the registry and the connection objects
Retained == <<dry_run, tools, ws>>

\* C20: an initialize request moves the Session of its connection from
\* Uninitialized to Initialized and records clientInfo on it.  For this the
\* state the server keeps must differ after the request from what it was
\* before.
C20_InitializeRecordsSession ==
    [][(last'.op = "text" /\ last'.cls = "initialized"
          /\ last'.frame.value.params.clientInfo = "client")
       => Retained' # Retained]_vars

\* C22: a binary frame or a protocol-level error ends the message loop of the
\* connection, so that no later frame of the connection is handled.
C22_BinaryOrErrorEndsLoop ==
    (last.op \in {"binary", "error"}) => ws[last.conn] = "closed"

\* the last frame is a request (a message with an id) for the method m
RequestFor(m) == IsText /\ EnvelopeValid /\ Msg.id # Absent /\ Msg.method = m

\* C25: every initialize request, whatever its params and however often it is
\* repeated on the connection, is answered with a result that holds the
\* protocol version 2024-11-05, the capabilities and the server identity.
C25_InitializeAlwaysSucceeds ==
    RequestFor("initialize") =>
        /\ Replied /\ "result" \in DOMAIN Reply
        /\ Reply.result = [protocolVersion |-> "2024-11-05",
                           capabilities |-> capabilities,
                           serverInfo |-> [name |-> "ai-sre-mcp-server",
                                           version |-> "1.0.0"]]

\* C26: health_check without a service is answered with one text content
\* block that says status healthy and starts no process; with a service one
\* probe is run (at most one process) and the status is healthy exactly when
\* the probe succeeded with the output 200.
C26_HealthCheck ==
    (ToolCall /\ Msg.params.name = "health_check" /\ Args.t # "nonobject") =>
        /\ Replied /\ "result" \in DOMAIN Reply
        /\ Len(Reply.result.content) = 1 /\ Reply.result.content[1].type = "text"
        /\ ~Truthy(Args.service) => (Content.status = "healthy" /\ last.spawned = 0)
        /\ Truthy(Args.service) =>
              /\ last.spawned <= 1
              /\ (~dry_run /\ last.world.procs[1].kind # "spawnfail") => last.spawned = 1
              /\ Content.status \in {"healthy", "unhealthy"}
              /\ Content.status = "healthy" <=>
                    (~dry_run /\ last.world.procs[1] = ExitOk("200"))

C26_Witness ==
    /\ ToolCall /\ Msg.params.name = "health_check" /\ Args.service = "api"
    /\ ~dry_run /\ last.world.procs[1] = ExitOk("200") /\ last.spawned = 1
    /\ Replied /\ Content.status = "healthy" /\ Content.response_code = "200"

\* the uris that resources/list returns
ListedUris == {r.uri : r \in handle_resources_list(NoParams, Env(Quiet)).val.resources}

\* C27: resources/read succeeds exactly for the uris of resources/list: for a
\* listed uri the result is one content entry with that uri and the content
\* of the resource as text, for any other or a missing uri the reply is an
\* error response.
C27_ReadExactlyListed ==
    RequestFor("resources/read") =>
        /\ Replied
        /\ IF Msg.params.t # "nonobject" /\ Msg.params.uri \in ListedUris
           THEN /\ "result" \in DOMAIN Reply /\ "error" \notin DOMAIN Reply
                /\ Len(Reply.result.contents) = 1
                /\ Reply.result.contents[1].uri = Msg.params.uri
                /\ "error" \notin DOMAIN Reply.result.contents[1].text.json
           ELSE /\ "error" \in DOMAIN Reply /\ "result" \notin DOMAIN Reply

C27_Witness ==
    /\ RequestFor("resources/read") /\ Msg.params.uri = "bogus://x"
    /\ IsErrorReply(-32603) /\ Reply.id = Msg.id

\* the last frame is a protocol error: text that is no JSON, no valid
\* envelope, an unrouted method or a fault of a handler
ProtocolError ==
    /\ IsText
    /\ \/ last.frame.kind \in {"malformed", "nonstd"}
       \/ ~EnvelopeValid
       \/ Get(Msg.method, PyNone) \notin Routed
       \/ HandlerRaised

StandardCodes == {-32700, -32600, -32601, -32603}

\* C29: every protocol error is reported as an error object of a code and a
\* message only, on the response for the offending frame, with one of the
\* codes -32700, -32600, -32601, -32603.
C29_ProtocolErrorShape ==
    /\ (IsText /\ Replied /\ "error" \in DOMAIN Reply) =>
          /\ DOMAIN Reply.error = {"code", "message"}
          /\ Reply.error.code \in StandardCodes
          /\ DOMAIN Reply = {"jsonrpc", "id", "error"}
    /\ ProtocolError => (Replied /\ "error" \in DOMAIN Reply)

\* a POST to /mcp/http has been answered
Posted == call.fn = "handle_http_mcp" /\ ~call.out.hang

\* what the dispatcher returns for the body of the POST
Dispatched == process_message(call.body.value, Env(call.world))

\* C23: a POST to /mcp/http handles one message and answers it: the JSON-RPC
\* response is the body of the answer; when the dispatcher returns no
\* response the body is {status: notification_processed}; a body that is no
\* JSON gets status 500 and a body with the one field error, which is no
\* JSON-RPC error object.
C23_HttpOneMessagePerPost ==
    Posted =>
        /\ call.body.kind \in {"malformed", "nonstd"} =>
              /\ call.out.status = 500
              /\ DOMAIN call.out.body = {"error"}
              /\ call.out.ran = {} /\ call.out.spawned = 0
        /\ (call.body.kind = "json" /\ ~Dispatched.exc) =>
              /\ call.out.status = 200
              /\ call.out.body = IF Dispatched.val # NoValue THEN Dispatched.val
                                  ELSE [status |-> "notification_processed"]
              /\ Cardinality(call.out.ran) <= 1

\* the step ends the iteration of connection c for the frame it was handling
Finishes(c) == ws[c] = "handling" /\ (ws'[c] # "handling" \/ pending'[c] # pending[c])

\* C21: on one connection the text frames are handled one at a time in the
\* order of arrival: a frame is read only when no frame of the connection is
\* being handled (so the response to the frame before it has been written),
\* the frame in flight is the one read last, and the responses are written
\* in the order of their frames.
C21_OneFrameAtATime ==
    /\ [][\A c \in LoopConns :
            recvd'[c] # recvd[c] =>
                /\ pending[c] = NoPending
                /\ recvd'[c] = recvd[c] + 1
                /\ pending'[c].n = recvd'[c]
                /\ outbox'[c] = outbox[c]]_vars
    /\ [](\A c \in LoopConns :
            /\ (pending[c] # NoPending) <=> (ws[c] \in {"handling", "blocked"})
            /\ (pending[c] # NoPending) =>
                  /\ pending[c].n = recvd[c]
                  /\ \A i \in 1..Len(outbox[c]) : outbox[c][i] < pending[c].n
            /\ \A i \in 1..Len(outbox[c]) :
                  /\ outbox[c][i] \in 1..recvd[c]
                  /\ (i > 1) => outbox[c][i - 1] < outbox[c][i])

C21_Witness ==
    /\ IsText /\ last.conn = "c1" /\ Replied
    /\ recvd["c1"] = 2 /\ outbox["c1"] = <<1, 2>>
    /\ pending["c1"] = NoPending /\ ws["c1"] = "open"

\* the frame connection c is handling is a cancellation notice
Cancelling(c) ==
    /\ pending[c].frame.kind = "json"
    /\ pending[c].frame.value.method = "notifications/cancelled"

\* C24: notifications/cancelled is taken without a response and changes
\* nothing: the registry and the configuration stay as they are, and a call
\* in flight on any other connection stays in flight, to leave it only when
\* its own handler completes.
C24_CancelledIsInert ==
    /\ [][\A c \in LoopConns :
            (Finishes(c) /\ Cancelling(c)) =>
                /\ last'.op = "text" /\ last'.conn = c /\ last'.sent = <<>>
                /\ ~last'.raised /\ last'.spawned = 0
                /\ ws'[c] = "open"
                /\ UNCHANGED <<dry_run, tools, outbox, rest>>
                /\ \A d \in LoopConns \ {c} :
                      pending'[d] = pending[d] /\ ws'[d] = ws[d]]_vars
    /\ [][\A d \in LoopConns :
            (pending[d] # NoPending /\ pending'[d] # pending[d]) =>
                /\ pending'[d] = NoPending
                /\ last'.op = "text" /\ last'.conn = d
                /\ last'.frame = pending[d].frame]_vars

C24_Witness ==
    /\ IsText /\ last.conn = "c2" /\ Msg.method = "notifications/cancelled"
    /\ last.sent = <<>> /\ ws["c2"] = "open"
    /\ ws["c1"] = "handling" /\ pending["c1"].frame.value.method = "tools/call"

\* C30: handling a message leaves the state the connections share (the
\* registry, the executor's configuration) as it was, and the response to a
\* frame is the one a server that has served no other frame gives to it.
C30_NoSharedMutation ==
    /\ [][tools' = tools /\ dry_run' = dry_run]_vars
    /\ [](tools = InitTools)
    /\ [](\A c \in LoopConns :
            (IsText /\ last.conn = c) =>
                last.sent = on_text(last.frame,
                                    [dry_run |-> dry_run, tools |-> InitTools,
                                     procs |-> last.world.procs,
                                     repo |-> last.world.repo]).sent)

C30_Witness ==
    /\ IsText /\ last.conn = "c1" /\ Msg.method = "tools/list" /\ Replied
    /\ Cardinality(Reply.result.tools) = Cardinality(DOMAIN InitTools)
    /\ recvd["c2"] = 1 /\ outbox["c2"] = <<1>> /\ prev["c2"] = "ok"

\* the step is a reload that succeeded
ReloadCompletes == rest'.reloads = rest.reloads + 1 /\ rest'.status = 200

\* C28: a reload replaces the registry as a whole.  Every step of an
\* invocation, also one that runs after a reload, makes its membership check
\* and its lookup against the registry the invocation was dispatched to; a
\* completed reload leaves the registries of earlier handlers as they were
\* and puts the set built from the new configuration in place, which the
\* listing and every invocation dispatched afterwards then use.
C28_ReloadSwapsRegistry ==
    /\ [](\A r \in RestReqs :
            \A i \in 1..Len(rest.reqs[r].steps) :
                LET q == rest.reqs[r]
                    s == q.steps[i]
                IN  /\ s.known <=> (s.tool \in DOMAIN q.registry)
                    /\ s.known => s.cmd = q.registry[s.tool])
    /\ [][ReloadCompletes =>
            /\ rest'.heap[rest'.cli] = _build_active_tools(rest'.config)
            /\ \A h \in 1..Len(rest.heap) : rest'.heap[h] = rest.heap[h]]_vars
    /\ [](rest.status = 200 =>
            /\ (rest.listed.at = rest.reloads) =>
                  rest.listed.active_tools = DOMAIN _build_active_tools(rest.config)
            /\ \A r \in RestReqs :
                  (rest.reqs[r].pc # "idle" /\ rest.reqs[r].at = rest.reloads) =>
                      rest.reqs[r].registry = _build_active_tools(rest.config))

\* a chain dispatched before a reload took curl out of the registry ran curl
\* after it, and the listing taken since shows the new set
C28_Witness ==
    LET q == rest.reqs["r1"]
    IN  /\ q.via = "chain" /\ q.pc = "done" /\ q.result = "success"
        /\ Len(q.steps) = 2 /\ q.steps[2].tool = "curl" /\ q.steps[2].cmd = "curl"
        /\ q.at < rest.reloads /\ rest.status = 200
        /\ "curl" \notin DOMAIN rest.heap[rest.cli]
        /\ rest.listed.at = rest.reloads /\ "curl" \notin rest.listed.active_tools

\* the messages of the errors that say the tool n is unknown: the one of the
\* registry check and the one of the dispatch
UnknownToolMessages(n) ==
    {"Internal error: Unknown tool: " \o n,
     "Internal error: Tool execution failed: Unknown tool: " \o n}

\* C33: tools/list returns exactly the descriptors of the registry, one per
\* registered name, and a tools/call for a registered name reaches a handler:
\* whatever its reply, it is not the error that the tool is unknown.
C33_RegistryMatchesDispatch ==
    /\ RequestFor("tools/list") =>
          /\ Replied /\ "result" \in DOMAIN Reply
          /\ Reply.result.tools = {tools[n] : n \in DOMAIN tools}
          /\ {d.name : d \in Reply.result.tools} = DOMAIN tools
          /\ Cardinality(Reply.result.tools) = Cardinality(DOMAIN tools)
    /\ ToolCall =>
          /\ ~last.raised
          /\ (Replied /\ "error" \in DOMAIN Reply) =>
                Reply.error.message \notin UnknownToolMessages(Msg.params.name)

C33_Witness ==
    /\ ToolCall /\ Msg.params.name = "git_push" /\ Args.t # "nonobject"
    /\ Replied /\ "result" \in DOMAIN Reply /\ Content.success
    /\ last.spawned = 2

\* git_push asks git for the branch only when the call names none: the place
\* of the ahead-of-origin check among the processes of the call
AheadSlot == IF Truthy(Get(Args.branch, PyNone)) THEN 1 ELSE 2

\* the process in place k ran and ended with exit code 0 (a dry run starts
\* none and reports success)
Succeeded(k) ==
    \/ dry_run
    \/ /\ last.world.procs[k].kind = "exit"
       /\ last.world.procs[k].rc = 0
       /\ last.world.procs[k].utf8

GitPushCall ==
    /\ ToolCall /\ Msg.params.name = "git_push" /\ Args.t # "nonobject"
    /\ Replied /\ "result" \in DOMAIN Reply

\* C37: git_push reports success only when the ahead-of-origin check
\* succeeded and printed nothing, or when the push itself succeeded; a failed
\* check is never reported as success.
C37_PushSuccessIsEarned ==
    (GitPushCall /\ Content.success) =>
        /\ Succeeded(AheadSlot)
        /\ \/ ~dry_run /\ Strip(last.world.procs[AheadSlot].stdout) = ""
           \/ Succeeded(AheadSlot + 1)

\* the request of the REST server has been served by the endpoint e
Served(e) == call.fn = "rest" /\ call.done /\ call.req.endpoint = e

\* the process in place k of the request did not end with exit code 0:
\* it could not be started, timed out, failed or wrote undecodable output
ProcessFailed(k) ==
    ~(call.procs[k].kind = "exit" /\ call.procs[k].rc = 0 /\ call.procs[k].utf8)

\* the rule of the configuration for the tool of the request
ActiveByRule ==
    LET config == call.req.config
        tool == call.req.tool
    IN  /\ tool \in DOMAIN AvailableTools
        /\ tool \notin config.disabled_tools
        /\ \/ tool \in config.enabled_tools
           \/ "all" \in config.enabled_categories
           \/ AvailableTools[tool].category \in config.enabled_categories

\* C31: one invocation of a CLI tool starts at most one process, and exactly
\* one when the tool is active, dry-run is off and the process can be
\* started, with or without piped input.
C31_OneProcessPerInvocation ==
    Served("cli") =>
        /\ call.out.spawned <= 1
        /\ (ActiveByRule /\ ~dry_run /\ call.procs[1].kind # "spawnfail"
                /\ call.procs[2].kind # "spawnfail") => call.out.spawned = 1

\* C32: when the command of a REST endpoint fails, the answer has status 200
\* and carries a result with success false; a malformed request is answered
\* with a 4xx or 5xx status and starts no process.
C32_FailureIsDomainData ==
    /\ (\E e \in {"kubectl", "prometheus", "ready"} : Served(e)) =>
          \/ call.out.status \in 400..599 /\ call.out.spawned = 0
                /\ \/ call.req.endpoint = "kubectl" /\ call.req.params.t # "object"
                   \/ call.req.endpoint = "prometheus" /\ ~Truthy(call.req.query)
          \/ /\ call.out.status = 200
             /\ (~dry_run /\ ProcessFailed(1)) =>
                    /\ "result" \in DOMAIN call.out.body
                    /\ ~call.out.body.result.success

\* C35: a CLI tool is executed exactly when it is a known tool, is not in
\* disabled_tools, and is in enabled_tools or has its category (or all)
\* enabled; disabled wins over enabled; an inactive tool is answered with
\* success false and starts no process.
C35_ActiveIffConfigured ==
    Served("cli") =>
        /\ call.out.status = 200
        /\ ~ActiveByRule =>
              /\ ~call.out.body.result.success
              /\ "error" \in DOMAIN call.out.body.result
              /\ call.out.spawned = 0
        /\ ActiveByRule =>
              /\ "error" \notin DOMAIN call.out.body.result
              /\ (~dry_run /\ call.procs[1].kind # "spawnfail") => call.out.spawned >= 1
              /\ call.out.body.result.success = (dry_run \/ ~ProcessFailed(1))
                    \/ Truthy(call.req.params.input)

C35_Witness ==
    /\ Served("cli") /\ call.req.tool = "jq"
    /\ "jq" \in call.req.config.disabled_tools /\ "jq" \in call.req.config.enabled_tools
    /\ ~dry_run /\ ~call.out.body.result.success /\ call.out.spawned = 0

\* C36: chain_commands never raises: an empty list, a command without a
\* tool, an unknown tool and a failing command all give a result with
\* success false, and a failure carries the results up to and including the
\* first command that did not succeed; a completed chain has one successful
\* result per command and the final output.
C36_ChainIsStructured ==
    Served("chain") =>
        /\ call.out.status = 200
        /\ LET res == call.out.body.result
           IN  /\ res.success =>
                     /\ Len(res.results) = Len(call.req.commands)
                     /\ \A i \in 1..Len(res.results) : res.results[i].success
                     /\ res.final_output = res.results[Len(res.results)].stdout
               /\ ~res.success =>
                     /\ "error" \in DOMAIN res
                     /\ "results" \in DOMAIN res =>
                           /\ Len(res.results) \in 1..Len(call.req.commands)
                           /\ ~res.results[Len(res.results)].success
                           /\ \A i \in 1..(Len(res.results) - 1) : res.results[i].success

\* C34: whatever reloads have been answered, with success or with an error,
\* the active tool set is the one built from the active configuration: the
\* configuration has a tools mapping and self.cli holds the set built from it.
C34_ToolSetMatchesConfig ==
    /\ rest.config.t = "mapping"
    /\ rest.heap[rest.cli] = _build_active_tools(rest.config)

\* C38: when an invocation of _handle_sops has returned (and no other one
\* has been started, so that the files in /tmp are its own), neither the
\* key file nor the temp file with the plaintext is left.
C38_NoSecretFileLeft ==
    \A i \in SopsCalls :
        (rest.sops[i].pc = "done" /\ \A j \in SopsCalls \ {i} : rest.sops[j].pc = "idle") =>
            rest.files = NoFiles

\* C39: while the sops process of an invocation runs, the key file exists
\* and holds the key of that invocation.
C39_KeyFileIsOwn ==
    \A i \in SopsCalls :
        rest.sops[i].pc = "running" => rest.files.age_key_file = rest.sops[i].age_key

====
